---- MODULE Spec2Model ----
(***************************************************************************)
(* A model of the rust-fr codec: the bit-packed encoder of                 *)
(* src/protocol/serializer.rs and the decoder of src/deserializer.rs.      *)
(*                                                                         *)
(* The encoder's buffer and the decoder's cursor are sequences of bits     *)
(* (BitVec<u8, Lsb0> / &BitSlice<u8, Lsb0>): TRUE is a set bit, and bit i  *)
(* of a byte (counting from the least significant one) is element i+1 of   *)
(* the byte's eight bits.                                                   *)
(*                                                                         *)
(* Values are modelled by shape:                                           *)
(*   uint / int   an integer            bool    a BOOLEAN                  *)
(*   char         its code point        str     its UTF-8 bytes            *)
(*   float        the little-endian bytes of its IEEE-754 bit pattern      *)
(*   opt          << >> (None) or <<v>> (Some(v))                          *)
(*   seq          a sequence of values                                     *)
(*   struct       the field values in declaration order                    *)
(*   enum         [idx |-> variant ordinal, fields |-> payload values]     *)
(***************************************************************************)
EXTENDS Integers, Sequences, FiniteSets

(***************************************************************************)
(* Bits and bytes                                                          *)
(***************************************************************************)

\* One u8 seen as eight bits in Lsb0 order.
byte_to_bits(b) == [i \in 1..8 |-> ((b \div (2 ^ (i - 1))) % 2) = 1]

\* The loop over bits.iter().enumerate() that sets bit i of the byte for every set bit i.
RECURSIVE bits_to_byte(_)
bits_to_byte(bits) ==
    IF Len(bits) = 0 THEN 0
    ELSE (IF bits[1] THEN 1 ELSE 0) + 2 * bits_to_byte(Tail(bits))

\* <[u8]>::view_bits::<Lsb0>: bit i of byte j is bit 8 * j + i of the slice.
view_bits(bs) ==
    [i \in 1..(8 * Len(bs)) |-> byte_to_bits(bs[((i - 1) \div 8) + 1])[((i - 1) % 8) + 1]]

\* BitVec::extend over bytes: every byte appends its eight bits.
extend_bytes(data, bs) == data \o view_bits(bs)

\* BitVec::into_vec: the bits in whole bytes, the unused bits of the last byte 0.
into_vec(data) ==
    LET pad    == (8 - (Len(data) % 8)) % 8
        padded == data \o [i \in 1..pad |-> FALSE]
    IN  [j \in 1..(Len(padded) \div 8) |->
            bits_to_byte(SubSeq(padded, 8 * (j - 1) + 1, 8 * j))]

\* {integer}::to_le_bytes for a value of n bytes (two's complement).
RECURSIVE to_le_bytes(_, _)
to_le_bytes(v, n) ==
    IF n = 0 THEN << >>
    ELSE <<v % 256>> \o to_le_bytes(v \div 256, n - 1)

\* u8/u16/u32/u64::from_le_bytes.
RECURSIVE unsigned_from_le_bytes(_)
unsigned_from_le_bytes(bs) ==
    IF Len(bs) = 0 THEN 0
    ELSE bs[1] + 256 * unsigned_from_le_bytes(Tail(bs))

\* i8/i16/i32/i64::from_le_bytes.
RECURSIVE signed_from_le_bytes(_)
signed_from_le_bytes(bs) ==
    IF Len(bs) = 1 THEN (IF bs[1] >= 128 THEN bs[1] - 256 ELSE bs[1])
    ELSE bs[1] + 256 * signed_from_le_bytes(Tail(bs))

(***************************************************************************)
(* The Delimiter enum                                                      *)
(***************************************************************************)

Delimiter == {"String", "Byte", "Unit", "Seq", "SeqValue", "Map", "MapKey", "MapValue"}

\* The cast token as u8.
DelimiterCode(token) ==
    CASE token = "String"   -> 134
      [] token = "Byte"     -> 135
      [] token = "Unit"     -> 2
      [] token = "Seq"      -> 3
      [] token = "SeqValue" -> 4
      [] token = "Map"      -> 5
      [] token = "MapKey"   -> 6
      [] token = "MapValue" -> 7

(***************************************************************************)
(* Results                                                                 *)
(***************************************************************************)

\* Encoder results carry the buffer, decoder results the value and the cursor.
SerOk(data)    == [st |-> "ok", data |-> data, err |-> ""]
SerErr(e)      == [st |-> "err", data |-> << >>, err |-> e]
DeOk(v, rest)  == [st |-> "ok", val |-> v, rest |-> rest, err |-> ""]
DeErr(e)       == [st |-> "err", val |-> << >>, rest |-> << >>, err |-> e]
\* A panic (an out-of-range slice index, an unwrap of None) unwinds the call.
DePanic(what)  == [st |-> "panic", val |-> << >>, rest |-> << >>, err |-> what]

(***************************************************************************)
(* CustomSerializer (protocol/serializer.rs)                               *)
(***************************************************************************)

ser_peek_n_bits(data, size) ==
    IF size > Len(data) THEN SerErr("NLargerThanLength")
    ELSE SerOk(SubSeq(data, Len(data) - size + 1, Len(data)))

\* Ok(TRUE/FALSE) is returned in the data field.
ser_peek_token(data, token) ==
    LET bits == IF token \in {"String", "Byte"}
                THEN ser_peek_n_bits(data, 8)
                ELSE ser_peek_n_bits(data, 3)
    IN  IF bits.st # "ok" THEN bits
        ELSE SerOk(bits_to_byte(bits.data) = DelimiterCode(token))

\* Ok(byte) is returned in the data field.
peek_token_before_n_bits(data, n) ==
    LET bits == ser_peek_n_bits(data, n + 3)
    IN  IF bits.st # "ok" THEN bits
        ELSE SerOk(bits_to_byte(SubSeq(bits.data, 1, 3)))

serialize_token(data, token) ==
    CASE token = "String"   -> data \o <<FALSE, TRUE, TRUE, FALSE, FALSE, FALSE, FALSE, TRUE>>
      [] token = "Byte"     -> data \o <<TRUE, TRUE, TRUE, FALSE, FALSE, FALSE, FALSE, TRUE>>
      [] token = "Unit"     -> data \o <<FALSE, TRUE, FALSE>>
      [] token = "Seq"      -> data \o <<TRUE, TRUE, FALSE>>
      [] token = "SeqValue" -> data \o <<FALSE, FALSE, TRUE>>
      [] token = "Map"      -> data \o <<TRUE, FALSE, TRUE>>
      [] token = "MapKey"   -> data \o <<FALSE, TRUE, TRUE>>
      [] token = "MapValue" -> data \o <<TRUE, TRUE, TRUE>>

\* serialize_bool that writes the bool as a whole byte, 0 or 1.
serialize_bool_byte(data, v) == SerOk(extend_bytes(data, <<IF v THEN 1 ELSE 0>>))

serialize_bool(data, v) == SerOk(Append(data, v))

\* serialize_u8 .. serialize_u64 and serialize_i8 .. serialize_i64.
serialize_integer(data, v, w) == SerOk(extend_bytes(data, to_le_bytes(v, w)))

\* serialize_f32 / serialize_f64: v is the little-endian bit pattern.
serialize_float(data, v) == SerOk(extend_bytes(data, v))

serialize_u32(data, v) == serialize_integer(data, v, 4)

serialize_char(data, v) == serialize_u32(data, v)

serialize_str(data, v) == SerOk(serialize_token(extend_bytes(data, v), "String"))

serialize_unit(data) == SerOk(serialize_token(data, "Unit"))

serialize_none(data) == serialize_unit(data)

\* serialize_seq that opens the sequence with no token, as serialize_map does.
serialize_seq_silent(data) == SerOk(data)

serialize_seq(data) == SerOk(serialize_token(data, "Seq"))

serialize_map(data) == SerOk(data)

(***************************************************************************)
(* Serializing a value of a known shape.  The Serialize impls of the       *)
(* values (serde's for Option and Vec, the derived ones for structs and    *)
(* enums) call the serializer's methods in this order.                     *)
(***************************************************************************)

RECURSIVE serialize(_, _, _)
RECURSIVE serialize_elements(_, _, _)
RECURSIVE serialize_fields(_, _, _)
RECURSIVE serialize_tuple_variant_fields(_, _, _)
RECURSIVE serialize_entries(_, _, _)

serialize_some(data, sh, v) == serialize(data, sh, v)

\* SerializeSeq::serialize_element (SerializeTuple's is the same code).
serialize_element(data, sh, v) ==
    LET p == ser_peek_token(data, "Seq")
    IN  IF p.st # "ok" THEN p
        ELSE IF ~p.data
             THEN serialize(serialize_token(data, "SeqValue"), sh, v)
             ELSE serialize(data, sh, v)

\* SerializeSeq::end.
seq_end(data) == SerOk(serialize_token(data, "Seq"))

\* serialize_field that leaves out the MapKey token between the name and the value.
serialize_field_no_key_token(data, key, sh, v) ==
    LET k == serialize_str(data, key)
    IN  IF k.st # "ok" THEN k
        ELSE LET r == serialize(k.data, sh, v)
             IN  IF r.st # "ok" THEN r
                 ELSE SerOk(serialize_token(r.data, "MapValue"))

\* SerializeStruct::serialize_field (SerializeStructVariant's is the same code).
serialize_field(data, key, sh, v) ==
    LET k == serialize_str(data, key)
    IN  IF k.st # "ok" THEN k
        ELSE LET r == serialize(serialize_token(k.data, "MapKey"), sh, v)
             IN  IF r.st # "ok" THEN r
                 ELSE SerOk(serialize_token(r.data, "MapValue"))

\* SerializeMap::serialize_key.
serialize_key(data, sh, key) ==
    LET k == serialize(data, sh, key)
    IN  IF k.st # "ok" THEN k ELSE SerOk(serialize_token(k.data, "MapKey"))

\* serialize_value that leaves out the MapValue token.
serialize_value_bare(data, sh, v) == serialize(data, sh, v)

\* SerializeMap::serialize_value.
serialize_value(data, sh, v) ==
    LET r == serialize(data, sh, v)
    IN  IF r.st # "ok" THEN r ELSE SerOk(serialize_token(r.data, "MapValue"))

\* SerializeStruct::end / SerializeMap::end.
map_end(data) == SerOk(serialize_token(data, "Map"))

\* SerializeTupleVariant::serialize_field.
tuple_variant_serialize_field(data, sh, v) ==
    LET p == peek_token_before_n_bits(data, 32)
    IN  IF p.st # "ok" THEN p
        ELSE IF p.data # DelimiterCode("Seq")
             THEN serialize(serialize_token(data, "SeqValue"), sh, v)
             ELSE serialize(data, sh, v)

\* serialize_unit_variant.
serialize_unit_variant(data, variant_index) == serialize_u32(data, variant_index)

\* serialize_newtype_variant.
serialize_newtype_variant(data, variant_index, sh, v) ==
    LET i == serialize_u32(data, variant_index)
    IN  IF i.st # "ok" THEN i ELSE serialize(i.data, sh, v)

\* serialize_tuple_variant.
serialize_tuple_variant(data, variant_index) ==
    LET i == serialize_u32(data, variant_index)
    IN  IF i.st # "ok" THEN i ELSE serialize_seq(i.data)

\* serialize_struct_variant.
serialize_struct_variant(data, variant_index) ==
    LET i == serialize_u32(data, variant_index)
    IN  IF i.st # "ok" THEN i ELSE serialize_map(i.data)

\* The element loop of a sequence: one serialize_element per element, in order.
serialize_elements(data, sh, vs) ==
    IF Len(vs) = 0 THEN SerOk(data)
    ELSE LET r == serialize_element(data, sh, vs[1])
         IN  IF r.st # "ok" THEN r
             ELSE serialize_elements(r.data, sh, Tail(vs))

\* The field loop of a struct or struct variant, in declaration order.
serialize_fields(data, fields, vs) ==
    IF Len(fields) = 0 THEN SerOk(data)
    ELSE LET r == serialize_field(data, fields[1].name, fields[1].sh, vs[1])
         IN  IF r.st # "ok" THEN r
             ELSE serialize_fields(r.data, Tail(fields), Tail(vs))

\* The field loop of a tuple variant.
serialize_tuple_variant_fields(data, fields, vs) ==
    IF Len(fields) = 0 THEN SerOk(data)
    ELSE LET r == tuple_variant_serialize_field(data, fields[1].sh, vs[1])
         IN  IF r.st # "ok" THEN r
             ELSE serialize_tuple_variant_fields(r.data, Tail(fields), Tail(vs))

\* The entry loop of a map: serialize_key and serialize_value per entry <<key, value>>,
\* in the map's iteration order.
serialize_entries(data, sh, es) ==
    IF Len(es) = 0 THEN SerOk(data)
    ELSE LET k == serialize_key(data, sh.key, es[1][1])
         IN  IF k.st # "ok" THEN k
             ELSE LET r == serialize_value(k.data, sh.val, es[1][2])
                  IN  IF r.st # "ok" THEN r
                      ELSE serialize_entries(r.data, sh, Tail(es))

\* An enum value: the method of its variant's kind.
serialize_enum(data, sh, v) ==
    LET var == sh.variants[v.idx + 1]
    IN  CASE var.kind = "unit" -> serialize_unit_variant(data, v.idx)
          [] var.kind = "newtype" ->
                serialize_newtype_variant(data, v.idx, var.fields[1].sh, v.fields[1])
          [] var.kind = "tuple" ->
                LET s == serialize_tuple_variant(data, v.idx)
                    r == serialize_tuple_variant_fields(s.data, var.fields, v.fields)
                IN  IF s.st # "ok" THEN s
                    ELSE IF r.st # "ok" THEN r ELSE seq_end(r.data)
          [] var.kind = "struct" ->
                LET s == serialize_struct_variant(data, v.idx)
                    r == serialize_fields(s.data, var.fields, v.fields)
                IN  IF s.st # "ok" THEN s
                    ELSE IF r.st # "ok" THEN r ELSE map_end(r.data)

serialize(data, sh, v) ==
    CASE sh.k = "bool"  -> serialize_bool(data, v)
      [] sh.k = "uint"  -> serialize_integer(data, v, sh.w)
      [] sh.k = "int"   -> serialize_integer(data, v, sh.w)
      [] sh.k = "float" -> serialize_float(data, v)
      [] sh.k = "char"  -> serialize_char(data, v)
      [] sh.k = "str"   -> serialize_str(data, v)
      [] sh.k = "opt"   -> IF Len(v) = 0 THEN serialize_none(data)
                           ELSE serialize_some(data, sh.of, v[1])
      [] sh.k = "seq"   ->
            LET s == serialize_seq(data)
                r == serialize_elements(s.data, sh.of, v)
            IN  IF s.st # "ok" THEN s
                ELSE IF r.st # "ok" THEN r ELSE seq_end(r.data)
      [] sh.k = "struct" ->
            LET s == serialize_map(data)
                r == serialize_fields(s.data, sh.fields, v)
            IN  IF s.st # "ok" THEN s
                ELSE IF r.st # "ok" THEN r ELSE map_end(r.data)
      [] sh.k = "map" ->
            LET s == serialize_map(data)
                r == serialize_entries(s.data, sh, v)
            IN  IF s.st # "ok" THEN s
                ELSE IF r.st # "ok" THEN r ELSE map_end(r.data)
      [] sh.k = "enum"  -> serialize_enum(data, sh, v)

\* to_bytes: a fresh buffer, the value serialized into it, the buffer as bytes.
\* Ok(bytes) is returned in the data field.
to_bytes(sh, v) ==
    LET r == serialize(<< >>, sh, v)
    IN  IF r.st # "ok" THEN r ELSE SerOk(into_vec(r.data))

(***************************************************************************)
(* CustomDeserializer (deserializer.rs): data is the input not yet         *)
(* consumed, a suffix of the caller's bits.                                *)
(***************************************************************************)

\* The ? operator: an Err (or a panic) of r ends the caller with it, an Ok goes on.
Try(r, K(_)) == IF r.st # "ok" THEN r ELSE K(r)

de_peek_n_bits(data, size) ==
    IF size > Len(data) THEN DeErr("NLargerThanLength")
    ELSE DeOk(SubSeq(data, 1, size), data)

de_peek_byte(data) ==
    Try(de_peek_n_bits(data, 8), LAMBDA bits : DeOk(bits_to_byte(bits.val), data))

\* The number of bits peek_token inspects and eat_token consumes for a token.
de_token_bits(token) == IF token \in {"String", "Byte", "Map"} THEN 8 ELSE 3

de_peek_token(data, token) ==
    Try(de_peek_n_bits(data, de_token_bits(token)),
        LAMBDA bits : DeOk(bits_to_byte(bits.val) = DelimiterCode(token), data))

eat_bit(data) ==
    Try(de_peek_n_bits(data, 1),
        LAMBDA bits : DeOk(bits.val[1], SubSeq(data, 2, Len(data))))

\* eat_byte that returns the byte and forgets to move the cursor.
eat_byte_in_place(data) ==
    Try(de_peek_byte(data), LAMBDA byte : DeOk(byte.val, data))

eat_byte(data) ==
    Try(de_peek_byte(data), LAMBDA byte : DeOk(byte.val, SubSeq(data, 9, Len(data))))

\* &self.data[..n * 8] panics when fewer than n * 8 bits are left.
eat_bytes(data, n) ==
    IF n * 8 > Len(data) THEN DePanic("slice index out of range")
    ELSE DeOk([i \in 1..n |-> bits_to_byte(SubSeq(data, 8 * (i - 1) + 1, 8 * i))],
              SubSeq(data, n * 8 + 1, Len(data)))

eat_token(data, token) ==
    IF Len(data) < de_token_bits(token) THEN DeErr("UnexpectedEOF")
    ELSE DeOk(<< >>, SubSeq(data, de_token_bits(token) + 1, Len(data)))

\* The pair the decoder uses for every token it requires: peek_token, the
\* ExpectedDelimiter error when it is not there, eat_token.
expect_token(data, token) ==
    Try(de_peek_token(data, token),
        LAMBDA p : IF ~p.val THEN DeErr("ExpectedDelimiter(" \o token \o ")")
                   ELSE eat_token(data, token))

parse_bool(data) == eat_bit(data)

\* parse_unsigned::<T>, length = size_of::<T>() (the conversion into T cannot fail).
parse_unsigned(data, length) ==
    IF Len(data) < length THEN DeErr("UnexpectedEOF")
    ELSE IF length = 1 THEN eat_byte(data)
    ELSE IF length \in {2, 4, 8}
         THEN Try(eat_bytes(data, length),
                  LAMBDA bytes : DeOk(unsigned_from_le_bytes(bytes.val), bytes.rest))
    ELSE DeErr("InvalidTypeSize")

\* parse_signed::<T>.
parse_signed(data, length) ==
    IF Len(data) < length THEN DeErr("UnexpectedEOF")
    ELSE IF length = 1
         THEN Try(eat_byte(data),
                  LAMBDA byte : DeOk(signed_from_le_bytes(<<byte.val>>), byte.rest))
    ELSE IF length \in {2, 4, 8}
         THEN Try(eat_bytes(data, length),
                  LAMBDA bytes : DeOk(signed_from_le_bytes(bytes.val), bytes.rest))
    ELSE DeErr("InvalidTypeSize")

\* parse_f32 / parse_f64: the value is kept as its little-endian bit pattern.
parse_float(data, length) == eat_bytes(data, length)

\* std::char::from_u32 is Some for every scalar value: no surrogate, at most 0x10FFFF.
char_from_u32_is_some(value) ==
    /\ value <= 1114111
    /\ ~(value >= 55296 /\ value <= 57343)

parse_char(data) ==
    Try(parse_unsigned(data, 4),
        LAMBDA value : IF char_from_u32_is_some(value.val) THEN value
                       ELSE DePanic("unwrap on None"))

\* String::from_utf8 accepts exactly the well-formed UTF-8 byte sequences.
RECURSIVE from_utf8_is_ok(_)
from_utf8_is_ok(bs) ==
    LET n       == Len(bs)
        cont(i) == i <= n /\ bs[i] >= 128 /\ bs[i] <= 191
        within(i, lo, hi) == i <= n /\ bs[i] >= lo /\ bs[i] <= hi
        width   == IF bs[1] < 128 THEN 1
                   ELSE IF bs[1] >= 194 /\ bs[1] <= 223 /\ cont(2) THEN 2
                   ELSE IF bs[1] = 224 /\ within(2, 160, 191) /\ cont(3) THEN 3
                   ELSE IF bs[1] >= 225 /\ bs[1] <= 236 /\ cont(2) /\ cont(3) THEN 3
                   ELSE IF bs[1] = 237 /\ within(2, 128, 159) /\ cont(3) THEN 3
                   ELSE IF bs[1] \in {238, 239} /\ cont(2) /\ cont(3) THEN 3
                   ELSE IF bs[1] = 240 /\ within(2, 144, 191) /\ cont(3) /\ cont(4) THEN 4
                   ELSE IF bs[1] >= 241 /\ bs[1] <= 243 /\ cont(2) /\ cont(3) /\ cont(4) THEN 4
                   ELSE IF bs[1] = 244 /\ within(2, 128, 143) /\ cont(3) /\ cont(4) THEN 4
                   ELSE 0
    IN  IF n = 0 THEN TRUE
        ELSE width > 0 /\ from_utf8_is_ok(SubSeq(bs, width + 1, n))

\* The last line of parse_str with String::from_utf8_unchecked in place of from_utf8.
string_from_bytes_unchecked(bytes, rest) == DeOk(bytes, rest)

\* The last line of parse_str: the collected bytes as a String.
string_from_bytes(bytes, rest) ==
    IF from_utf8_is_ok(bytes) THEN DeOk(bytes, rest) ELSE DeErr("ConversionError")

\* The byteloop of parse_str, entered with the bytes collected so far.
RECURSIVE parse_str_loop(_, _)
parse_str_loop(data, bytes) ==
    Try(eat_byte(data), LAMBDA byte :
    Try(de_peek_token(byte.rest, "String"), LAMBDA p :
        IF p.val
        THEN Try(eat_token(byte.rest, "String"), LAMBDA e :
                 string_from_bytes(Append(bytes, byte.val), e.rest))
        ELSE parse_str_loop(byte.rest, Append(bytes, byte.val))))

parse_str(data) == parse_str_loop(data, << >>)

\* The loop of parse_bytes.
RECURSIVE parse_bytes_loop(_, _)
parse_bytes_loop(data, bytes) ==
    Try(de_peek_token(data, "Byte"), LAMBDA p :
        IF p.val
        THEN Try(eat_token(data, "Byte"), LAMBDA e : DeOk(bytes, e.rest))
        ELSE Try(eat_byte(data), LAMBDA byte :
                 parse_bytes_loop(byte.rest, Append(bytes, byte.val))))

parse_bytes(data) == parse_bytes_loop(data, << >>)

(***************************************************************************)
(* Deserializing a value of a known shape.  The Deserialize impls of the   *)
(* target types (serde's for Option and Vec, the derived ones for structs  *)
(* and enums) drive the deserializer's methods and its Seq/Map/Enum access *)
(* objects in this order.                                                  *)
(***************************************************************************)

\* serde::de::Error::custom: the error a visitor or a derived impl raises itself.
custom(msg) == DeErr("DeserializationError")

RECURSIVE deserialize(_, _)
RECURSIVE vec_visit_seq(_, _, _, _)
RECURSIVE vec_visit_seq_partial(_, _, _, _)
RECURSIVE tuple_visit_seq(_, _, _, _)
RECURSIVE struct_visit_map(_, _, _)
RECURSIVE map_visit_map(_, _, _)

\* deserialize_option without its look at the next token: every input is a Some.
deserialize_option_always_some(data, sh) ==
    Try(deserialize(data, sh), LAMBDA r : DeOk(<<r.val>>, r.rest))

\* deserialize_option for Option<T>, sh the shape of T.
\* Some(v) is <<v>> and None is << >> in the val field.
deserialize_option(data, sh) ==
    Try(de_peek_token(data, "Unit"), LAMBDA p :
        IF p.val
        THEN Try(eat_token(data, "Unit"), LAMBDA e : DeOk(<< >>, e.rest))
        ELSE Try(deserialize(data, sh), LAMBDA r : DeOk(<<r.val>>, r.rest)))

\* SequenceDeserializer::new.
new_sequence_deserializer == TRUE

\* The part of next_element_seed before seed.deserialize: self.first and the cursor
\* when the method returns from it or goes on to the element.
next_element_seed_prologue(data, first) ==
    LET p == de_peek_token(data, "Seq")
    IN  IF p.st # "ok" \/ p.val THEN [first |-> first, data |-> data]
        ELSE IF first THEN [first |-> FALSE, data |-> data]
        ELSE LET e == expect_token(data, "SeqValue")
             IN  IF e.st # "ok" THEN [first |-> first, data |-> data]
                 ELSE [first |-> FALSE, data |-> e.rest]

\* next_element_seed that wants the separator before every element, the first too.
next_element_seed_always_separated(data, first, sh) ==
    Try(de_peek_token(data, "Seq"), LAMBDA p :
        IF p.val THEN DeOk(<< >>, data)
        ELSE Try(expect_token(data, "SeqValue"), LAMBDA e :
             Try(deserialize(e.rest, sh), LAMBDA r : DeOk(<<r.val>>, r.rest))))

\* SequenceDeserializer::next_element_seed; Ok(None) is << >>, Ok(Some(v)) is <<v>>.
\* first becomes false exactly when the call goes on to decode an element.
next_element_seed(data, first, sh) ==
    Try(de_peek_token(data, "Seq"), LAMBDA p :
        IF p.val THEN DeOk(<< >>, data)
        ELSE Try(IF first THEN DeOk(<< >>, data) ELSE expect_token(data, "SeqValue"),
                 LAMBDA e :
                 Try(deserialize(e.rest, sh), LAMBDA r : DeOk(<<r.val>>, r.rest))))

\* Vec<T>'s visitor: next_element until None.
\* A visitor that takes a failing element for the end of the sequence and returns the
\* elements it has.
vec_visit_seq_partial(data, first, sh, acc) ==
    LET e == next_element_seed(data, first, sh)
    IN  IF e.st # "ok" THEN DeOk(acc, data)
        ELSE IF Len(e.val) = 0 THEN DeOk(acc, e.rest)
        ELSE vec_visit_seq_partial(e.rest, FALSE, sh, Append(acc, e.val[1]))

vec_visit_seq(data, first, sh, acc) ==
    Try(next_element_seed(data, first, sh), LAMBDA e :
        IF Len(e.val) = 0 THEN DeOk(acc, e.rest)
        ELSE vec_visit_seq(e.rest, FALSE, sh, Append(acc, e.val[1])))

\* A tuple variant's derived visitor: one next_element per field, no more.
tuple_visit_seq(data, first, fields, acc) ==
    IF Len(fields) = 0 THEN DeOk(acc, data)
    ELSE Try(next_element_seed(data, first, fields[1].sh), LAMBDA e :
             IF Len(e.val) = 0 THEN custom("invalid length")
             ELSE tuple_visit_seq(e.rest, FALSE, Tail(fields), Append(acc, e.val[1])))

\* deserialize_seq; sh is a seq shape (a Vec) or a tuple shape (a tuple variant).
deserialize_seq(data, sh) ==
    Try(expect_token(data, "Seq"), LAMBDA e :
    Try(IF sh.k = "seq" THEN vec_visit_seq(e.rest, TRUE, sh.of, << >>)
        ELSE tuple_visit_seq(e.rest, TRUE, sh.fields, << >>), LAMBDA value :
    Try(expect_token(value.rest, "Seq"), LAMBDA e2 :
        DeOk(value.val, e2.rest))))

\* The derived field identifier's visit_str: the field's position, 0 for no field.
field_of(fields, name) ==
    IF \E i \in 1..Len(fields) : fields[i].name = name
    THEN CHOOSE i \in 1..Len(fields) : fields[i].name = name
    ELSE 0

\* MapDeserializer::next_key_seed with a struct's field identifier as the seed.
next_key_seed(data, fields) ==
    Try(de_peek_token(data, "Map"), LAMBDA p :
        IF p.val THEN DeOk(<< >>, data)
        ELSE Try(parse_str(data), LAMBDA key :
             Try(expect_token(key.rest, "MapKey"), LAMBDA e :
                 DeOk(<<field_of(fields, key.val)>>, e.rest))))

\* MapDeserializer::next_value_seed.
next_value_seed(data, sh) ==
    Try(deserialize(data, sh), LAMBDA value :
    Try(expect_token(value.rest, "MapValue"), LAMBDA e :
        DeOk(value.val, e.rest)))

\* deserialize_ignored_any that skips a value by eating one byte.
deserialize_ignored_any_skipping(data) == eat_byte(data)

deserialize_ignored_any(data) == DeErr("UnsupportedCall")

deserialize_any(data) == DeErr("UnsupportedCall")

\* Every field was read, or is an Option (a missing Option field is None).
all_fields_given(fields, got) ==
    \A i \in 1..Len(fields) : Len(got[i]) > 0 \/ fields[i].sh.k = "opt"

\* A struct's derived visit_map: got[i] is << >> until field i has been read.
struct_visit_map(data, fields, got) ==
    Try(next_key_seed(data, fields), LAMBDA k :
        IF Len(k.val) = 0
        THEN IF all_fields_given(fields, got)
             THEN DeOk([i \in 1..Len(fields) |->
                           IF Len(got[i]) > 0 THEN got[i][1] ELSE << >>], k.rest)
             ELSE custom("missing field")
        ELSE IF k.val[1] = 0 THEN deserialize_ignored_any(k.rest)
        ELSE IF Len(got[k.val[1]]) > 0 THEN custom("duplicate field")
        ELSE Try(next_value_seed(k.rest, fields[k.val[1]].sh), LAMBDA v :
                 struct_visit_map(v.rest, fields, [got EXCEPT ![k.val[1]] = <<v.val>>])))

\* MapDeserializer::next_key_seed with a key type as the seed (a map's key).
map_next_key_seed(data, sh) ==
    Try(de_peek_token(data, "Map"), LAMBDA p :
        IF p.val THEN DeOk(<< >>, data)
        ELSE Try(deserialize(data, sh), LAMBDA key :
             Try(expect_token(key.rest, "MapKey"), LAMBDA e :
                 DeOk(<<key.val>>, e.rest))))

\* A map's visitor: next_key and next_value until next_key is None, every entry
\* inserted into the map: a key the map already holds keeps its place and takes the
\* new value, a new key is a new entry. The entries <<key, value>> are kept in the
\* order their keys were first read.
map_visit_map(data, sh, acc) ==
    Try(map_next_key_seed(data, sh.key), LAMBDA k :
        IF Len(k.val) = 0 THEN DeOk(acc, k.rest)
        ELSE Try(next_value_seed(k.rest, sh.val), LAMBDA v :
                 map_visit_map(v.rest, sh,
                     IF \E i \in 1..Len(acc) : acc[i][1] = k.val[1]
                     THEN [i \in 1..Len(acc) |->
                              IF acc[i][1] = k.val[1] THEN <<k.val[1], v.val>> ELSE acc[i]]
                     ELSE Append(acc, <<k.val[1], v.val>>))))

\* deserialize_map with a map's visitor or a struct's (deserialize_struct forwards
\* to it).
deserialize_map(data, sh) ==
    Try(IF sh.k = "map" THEN map_visit_map(data, sh, << >>)
        ELSE struct_visit_map(data, sh.fields, [i \in 1..Len(sh.fields) |-> << >>]),
        LAMBDA value :
        Try(expect_token(value.rest, "Map"), LAMBDA e : DeOk(value.val, e.rest)))

\* variant_seed with a seed that wraps the index into the variants instead of
\* refusing it.
variant_seed_wrapping(data, sh) ==
    Try(parse_unsigned(data, 4), LAMBDA key :
        DeOk(key.val % Len(sh.variants), key.rest))

\* EnumAccess::variant_seed with the enum's derived variant identifier as the seed:
\* the u32 read is a variant's ordinal, or the seed raises invalid_value.
variant_seed(data, sh) ==
    Try(parse_unsigned(data, 4), LAMBDA key :
        IF key.val < Len(sh.variants) THEN key
        ELSE custom("invalid value: expected variant index"))

\* VariantAccess: the payload of a variant of a given kind.
variant_payload(data, var) ==
    CASE var.kind = "unit" -> DeOk(<< >>, data)
      [] var.kind = "newtype" ->
            Try(deserialize(data, var.fields[1].sh), LAMBDA x : DeOk(<<x.val>>, x.rest))
      [] var.kind = "tuple" ->
            deserialize_seq(data, [k |-> "tuple", fields |-> var.fields])
      [] var.kind = "struct" ->
            deserialize_map(data, [k |-> "struct", fields |-> var.fields])

\* deserialize_enum -> visit_enum: the variant, then its payload by VariantAccess.
deserialize_enum(data, sh) ==
    Try(variant_seed(data, sh), LAMBDA key :
    Try(variant_payload(key.rest, sh.variants[key.val + 1]), LAMBDA r :
        DeOk([idx |-> key.val, fields |-> r.val], r.rest)))

deserialize(data, sh) ==
    CASE sh.k = "bool"   -> parse_bool(data)
      [] sh.k = "uint"   -> parse_unsigned(data, sh.w)
      [] sh.k = "int"    -> parse_signed(data, sh.w)
      [] sh.k = "float"  -> parse_float(data, sh.w)
      [] sh.k = "char"   -> parse_char(data)
      [] sh.k = "str"    -> parse_str(data)
      [] sh.k = "opt"    -> deserialize_option(data, sh.of)
      [] sh.k = "seq"    -> deserialize_seq(data, sh)
      [] sh.k = "struct" -> deserialize_map(data, sh)
      [] sh.k = "map"    -> deserialize_map(data, sh)
      [] sh.k = "enum"   -> deserialize_enum(data, sh)

\* from_bytes: a cursor over all the bits of the input, the target type decoded
\* from it; what is left of the input when it returns is dropped.
from_bytes(bytes, sh) == deserialize(view_bits(bytes), sh)

(***************************************************************************)
(* MinimalSerializer (second/serializer.rs): the byte-aligned encoder.  Its *)
(* data is a sequence of bytes.                                            *)
(***************************************************************************)

STRING_DELIMITER    == 34
UNIT                == 5
ENUM_DELIMITER      == 149
SEQ_DELIMITER       == 38
SEQ_VALUE_DELIMITER == 46
MAP_DELIMITER       == 58
MAP_KEY_DELIMITER   == 59
MAP_VALUE_DELIMITER == 60
MAP_VALUE_SEPARATOR == 61

\* A panic of the encoder (todo!()) unwinds the call.
SerPanic(what) == [st |-> "panic", data |-> << >>, err |-> what]

\* Ok(byte) is returned in the data field.
min_peek_byte(data) ==
    IF Len(data) = 0 THEN SerErr("NoByte") ELSE SerOk(data[Len(data)])

min_peek_bytes(data, n) ==
    IF Len(data) < n THEN SerErr("NLargerThanLength")
    ELSE SerOk(SubSeq(data, Len(data) - n + 1, Len(data)))

min_serialize_u8(data, v) == SerOk(data \o to_le_bytes(v, 1))

min_serialize_u32(data, v) == SerOk(data \o to_le_bytes(v, 4))

min_serialize_str(data, v) ==
    Try(min_serialize_u8(data, STRING_DELIMITER), LAMBDA o :
        min_serialize_u8(o.data \o v, STRING_DELIMITER))

min_serialize_seq(data) == min_serialize_u8(data, SEQ_DELIMITER)

min_serialize_map(data) == min_serialize_u8(data, MAP_DELIMITER)

RECURSIVE min_serialize(_, _, _)
RECURSIVE min_serialize_elements(_, _, _)
RECURSIVE min_serialize_fields(_, _, _)
RECURSIVE min_serialize_tuple_variant_fields(_, _, _)
RECURSIVE min_serialize_struct_variant_fields(_, _, _)
RECURSIVE min_serialize_entries(_, _, _)

\* SerializeSeq::serialize_element.
min_serialize_element(data, sh, v) ==
    Try(min_peek_byte(data), LAMBDA p :
        IF p.data # SEQ_DELIMITER
        THEN Try(min_serialize_u8(data, SEQ_VALUE_DELIMITER), LAMBDA s :
                 min_serialize(s.data, sh, v))
        ELSE min_serialize(data, sh, v))

\* SerializeSeq::end (SerializeTupleVariant::end is the same code).
min_seq_end(data) == min_serialize_u8(data, SEQ_DELIMITER)

\* The key and value of an entry, after the separator: shared by serialize_key +
\* serialize_value and the two serialize_field methods, which write the same bytes.
min_serialize_entry(data, ksh, key, vsh, v) ==
    Try(min_serialize_u8(data, MAP_KEY_DELIMITER), LAMBDA a :
    Try(min_serialize(a.data, ksh, key), LAMBDA k :
    Try(min_serialize_u8(k.data, MAP_KEY_DELIMITER), LAMBDA b :
    Try(min_serialize_u8(b.data, MAP_VALUE_DELIMITER), LAMBDA c :
    Try(min_serialize(c.data, vsh, v), LAMBDA r :
        min_serialize_u8(r.data, MAP_VALUE_DELIMITER))))))

\* SerializeMap::serialize_key followed by SerializeMap::serialize_value.
min_serialize_key_value(data, ksh, key, vsh, v) ==
    Try(min_peek_byte(data), LAMBDA p :
        IF p.data # MAP_DELIMITER
        THEN Try(min_serialize_u8(data, MAP_VALUE_SEPARATOR), LAMBDA s :
                 min_serialize_entry(s.data, ksh, key, vsh, v))
        ELSE min_serialize_entry(data, ksh, key, vsh, v))

\* SerializeStruct::serialize_field.
min_serialize_field(data, key, sh, v) ==
    min_serialize_key_value(data, [k |-> "str"], key, sh, v)

\* SerializeMap::end / SerializeStruct::end / SerializeStructVariant::end.
min_map_end(data) == min_serialize_u8(data, MAP_DELIMITER)

\* SerializeTupleVariant::serialize_field.
min_tuple_variant_serialize_field(data, sh, v) ==
    Try(min_peek_bytes(data, 5), LAMBDA p :
        IF p.data[1] # SEQ_DELIMITER
        THEN Try(min_serialize_u8(data, SEQ_VALUE_DELIMITER), LAMBDA s :
                 min_serialize(s.data, sh, v))
        ELSE min_serialize(data, sh, v))

\* SerializeStructVariant::serialize_field.
min_struct_variant_serialize_field(data, key, sh, v) ==
    Try(min_peek_bytes(data, 5), LAMBDA p :
        IF p.data[5] # MAP_DELIMITER
        THEN Try(min_serialize_u8(data, MAP_VALUE_SEPARATOR), LAMBDA s :
                 min_serialize_entry(s.data, [k |-> "str"], key, sh, v))
        ELSE min_serialize_entry(data, [k |-> "str"], key, sh, v))

\* serialize_unit_variant; the other three variant methods begin with its two writes.
min_serialize_unit_variant(data, variant_index) ==
    Try(min_serialize_u8(data, ENUM_DELIMITER), LAMBDA e :
        min_serialize_u32(e.data, variant_index))

min_serialize_elements(data, sh, vs) ==
    IF Len(vs) = 0 THEN SerOk(data)
    ELSE Try(min_serialize_element(data, sh, vs[1]), LAMBDA r :
             min_serialize_elements(r.data, sh, Tail(vs)))

min_serialize_fields(data, fields, vs) ==
    IF Len(fields) = 0 THEN SerOk(data)
    ELSE Try(min_serialize_field(data, fields[1].name, fields[1].sh, vs[1]), LAMBDA r :
             min_serialize_fields(r.data, Tail(fields), Tail(vs)))

min_serialize_tuple_variant_fields(data, fields, vs) ==
    IF Len(fields) = 0 THEN SerOk(data)
    ELSE Try(min_tuple_variant_serialize_field(data, fields[1].sh, vs[1]), LAMBDA r :
             min_serialize_tuple_variant_fields(r.data, Tail(fields), Tail(vs)))

min_serialize_struct_variant_fields(data, fields, vs) ==
    IF Len(fields) = 0 THEN SerOk(data)
    ELSE Try(min_struct_variant_serialize_field(data, fields[1].name, fields[1].sh, vs[1]),
             LAMBDA r :
             min_serialize_struct_variant_fields(r.data, Tail(fields), Tail(vs)))

min_serialize_entries(data, sh, es) ==
    IF Len(es) = 0 THEN SerOk(data)
    ELSE Try(min_serialize_key_value(data, sh.key, es[1][1], sh.val, es[1][2]), LAMBDA r :
             min_serialize_entries(r.data, sh, Tail(es)))

\* An enum value: serialize_unit_variant, serialize_newtype_variant,
\* serialize_tuple_variant or serialize_struct_variant, and what the derived impl
\* calls on the SerializeTupleVariant / SerializeStructVariant it gets.
min_serialize_enum(data, sh, v) ==
    LET var == sh.variants[v.idx + 1]
    IN  Try(min_serialize_unit_variant(data, v.idx), LAMBDA i :
            CASE var.kind = "unit" -> i
              [] var.kind = "newtype" -> min_serialize(i.data, var.fields[1].sh, v.fields[1])
              [] var.kind = "tuple" ->
                    Try(min_serialize_seq(i.data), LAMBDA s :
                    Try(min_serialize_tuple_variant_fields(s.data, var.fields, v.fields),
                        LAMBDA r : min_seq_end(r.data)))
              [] var.kind = "struct" ->
                    Try(min_serialize_map(i.data), LAMBDA s :
                    Try(min_serialize_struct_variant_fields(s.data, var.fields, v.fields),
                        LAMBDA r : min_map_end(r.data))))

\* impl Serializer for &mut MinimalSerializer, by the value's shape.
min_serialize(data, sh, v) ==
    CASE sh.k = "bool"  -> SerOk(Append(data, IF v THEN 1 ELSE 0))
      [] sh.k = "uint"  -> SerOk(data \o to_le_bytes(v, sh.w))
      [] sh.k = "int"   -> SerOk(data \o to_le_bytes(v, sh.w))
      [] sh.k = "float" -> SerOk(data \o v)
      [] sh.k = "char"  -> min_serialize_u32(data, v)
      [] sh.k = "str"   -> min_serialize_str(data, v)
      [] sh.k = "opt"   -> IF Len(v) = 0 THEN min_serialize_u8(data, UNIT)
                           ELSE min_serialize(data, sh.of, v[1])
      [] sh.k = "seq"   ->
            Try(min_serialize_seq(data), LAMBDA s :
            Try(min_serialize_elements(s.data, sh.of, v), LAMBDA r : min_seq_end(r.data)))
      [] sh.k = "struct" ->
            Try(min_serialize_map(data), LAMBDA s :
            Try(min_serialize_fields(s.data, sh.fields, v), LAMBDA r : min_map_end(r.data)))
      [] sh.k = "map" ->
            Try(min_serialize_map(data), LAMBDA s :
            Try(min_serialize_entries(s.data, sh, v), LAMBDA r : min_map_end(r.data)))
      [] sh.k = "enum"  -> min_serialize_enum(data, sh, v)

\* second/serializer.rs to_bytes: a new MinimalSerializer, the value, its data.
min_to_bytes(sh, v) == min_serialize(<< >>, sh, v)

(***************************************************************************)
(* CustomSerializer of src/serializer.rs: the encoder whose tokens are u32  *)
(* words.  Its output is a sequence of bytes.                              *)
(***************************************************************************)

NULL          == 0
DAGGER        == 134
DOUBLE_DAGGER == 135
PIPE          == 166

\* CustomSerializer::peek_last: match self.output.len() > length.
word_peek_last(output, length) ==
    IF Len(output) > length
    THEN SerOk(SubSeq(output, Len(output) - length + 1, Len(output)))
    ELSE SerErr("UnexpectedEOF")

word_serialize_u32(output, v) == SerOk(output \o to_le_bytes(v, 4))

\* serialize_str: the length as a u64, then the bytes.
word_serialize_str(output, v) == SerOk(output \o to_le_bytes(Len(v), 8) \o v)

\* serialize_seq; serialize_map is the same code.
word_serialize_seq(output) == word_serialize_u32(output, DOUBLE_DAGGER)

RECURSIVE word_serialize(_, _, _)
RECURSIVE word_serialize_elements(_, _, _)
RECURSIVE word_serialize_fields(_, _, _)
RECURSIVE word_serialize_tuple_variant_fields(_, _, _)
RECURSIVE word_serialize_struct_variant_fields(_, _, _)
RECURSIVE word_serialize_entries(_, _, _)

\* SerializeSeq::serialize_element.
word_serialize_element(output, sh, v) ==
    Try(word_peek_last(output, 4), LAMBDA p :
        IF p.data # to_le_bytes(DOUBLE_DAGGER, 4)
        THEN Try(word_serialize_u32(output, DAGGER), LAMBDA s :
                 word_serialize(s.data, sh, v))
        ELSE word_serialize(output, sh, v))

\* SerializeSeq::end; SerializeMap::end and SerializeStruct::end are the same code.
word_seq_end(output) == word_serialize_u32(output, DOUBLE_DAGGER)

\* SerializeTupleVariant::serialize_field.
word_tuple_variant_serialize_field(output, sh, v) ==
    Try(word_peek_last(output, 8), LAMBDA p :
        IF unsigned_from_le_bytes(SubSeq(p.data, 1, 4)) # DOUBLE_DAGGER
        THEN Try(word_serialize_u32(output, DAGGER), LAMBDA s :
                 word_serialize(s.data, sh, v))
        ELSE word_serialize(output, sh, v))

\* SerializeTupleVariant::end: the token, then todo!().
word_tuple_variant_end(output) ==
    Try(word_serialize_u32(output, DOUBLE_DAGGER), LAMBDA s :
        SerPanic("not yet implemented"))

\* SerializeMap::serialize_key.
word_serialize_key(output, sh, key) ==
    Try(word_peek_last(output, 4), LAMBDA p :
    Try(IF p.data # to_le_bytes(DOUBLE_DAGGER, 4)
        THEN word_serialize_u32(output, DAGGER) ELSE SerOk(output), LAMBDA s :
    Try(word_serialize(s.data, sh, key), LAMBDA k :
        word_serialize_u32(k.data, PIPE))))

\* SerializeStruct::serialize_field.
word_serialize_field(output, key, sh, v) ==
    Try(word_serialize_key(output, [k |-> "str"], key), LAMBDA k :
        word_serialize(k.data, sh, v))

\* SerializeStructVariant::serialize_field.
word_struct_variant_serialize_field(output, key, sh, v) ==
    Try(word_serialize_str(output, key), LAMBDA k : word_serialize(k.data, sh, v))

word_serialize_elements(output, sh, vs) ==
    IF Len(vs) = 0 THEN SerOk(output)
    ELSE Try(word_serialize_element(output, sh, vs[1]), LAMBDA r :
             word_serialize_elements(r.data, sh, Tail(vs)))

word_serialize_fields(output, fields, vs) ==
    IF Len(fields) = 0 THEN SerOk(output)
    ELSE Try(word_serialize_field(output, fields[1].name, fields[1].sh, vs[1]), LAMBDA r :
             word_serialize_fields(r.data, Tail(fields), Tail(vs)))

word_serialize_tuple_variant_fields(output, fields, vs) ==
    IF Len(fields) = 0 THEN SerOk(output)
    ELSE Try(word_tuple_variant_serialize_field(output, fields[1].sh, vs[1]), LAMBDA r :
             word_serialize_tuple_variant_fields(r.data, Tail(fields), Tail(vs)))

word_serialize_struct_variant_fields(output, fields, vs) ==
    IF Len(fields) = 0 THEN SerOk(output)
    ELSE Try(word_struct_variant_serialize_field(output, fields[1].name, fields[1].sh, vs[1]),
             LAMBDA r :
             word_serialize_struct_variant_fields(r.data, Tail(fields), Tail(vs)))

\* SerializeMap::serialize_key and serialize_value (the value and nothing else) per
\* entry.
word_serialize_entries(output, sh, es) ==
    IF Len(es) = 0 THEN SerOk(output)
    ELSE Try(word_serialize_key(output, sh.key, es[1][1]), LAMBDA k :
         Try(word_serialize(k.data, sh.val, es[1][2]), LAMBDA r :
             word_serialize_entries(r.data, sh, Tail(es))))

\* An enum value: serialize_unit_variant, serialize_newtype_variant,
\* serialize_tuple_variant or serialize_struct_variant, and what the derived impl
\* calls on the SerializeTupleVariant / SerializeStructVariant it gets.
word_serialize_enum(output, sh, v) ==
    LET var == sh.variants[v.idx + 1]
    IN  CASE var.kind = "unit" ->
                Try(word_serialize_u32(output, DAGGER), LAMBDA d :
                    word_serialize_u32(d.data, v.idx))
          [] var.kind = "newtype" ->
                Try(word_serialize_u32(output, DOUBLE_DAGGER), LAMBDA d :
                Try(word_serialize_u32(d.data, v.idx), LAMBDA i :
                Try(word_serialize(i.data, var.fields[1].sh, v.fields[1]), LAMBDA r :
                    word_serialize_u32(r.data, DOUBLE_DAGGER))))
          [] var.kind = "tuple" ->
                Try(word_serialize_u32(output, DOUBLE_DAGGER), LAMBDA d :
                Try(word_serialize_u32(d.data, v.idx), LAMBDA i :
                Try(word_serialize_tuple_variant_fields(i.data, var.fields, v.fields),
                    LAMBDA r : word_tuple_variant_end(r.data))))
          [] var.kind = "struct" ->
                Try(word_serialize_u32(output, v.idx), LAMBDA i :
                    word_serialize_struct_variant_fields(i.data, var.fields, v.fields))

\* impl Serializer for &mut CustomSerializer, by the value's shape.
word_serialize(output, sh, v) ==
    CASE sh.k = "bool"  -> SerOk(Append(output, IF v THEN 1 ELSE 0))
      [] sh.k = "uint"  -> SerOk(output \o to_le_bytes(v, sh.w))
      [] sh.k = "int"   -> SerOk(output \o to_le_bytes(v, sh.w))
      [] sh.k = "float" -> SerOk(output \o v)
      [] sh.k = "char"  -> word_serialize_u32(output, v)
      [] sh.k = "str"   -> word_serialize_str(output, v)
      [] sh.k = "opt"   -> IF Len(v) = 0 THEN word_serialize_u32(output, NULL)
                           ELSE word_serialize(output, sh.of, v[1])
      [] sh.k = "seq"   ->
            Try(word_serialize_seq(output), LAMBDA s :
            Try(word_serialize_elements(s.data, sh.of, v), LAMBDA r : word_seq_end(r.data)))
      [] sh.k = "struct" ->
            Try(word_serialize_seq(output), LAMBDA s :
            Try(word_serialize_fields(s.data, sh.fields, v), LAMBDA r : word_seq_end(r.data)))
      [] sh.k = "map" ->
            Try(word_serialize_seq(output), LAMBDA s :
            Try(word_serialize_entries(s.data, sh, v), LAMBDA r : word_seq_end(r.data)))
      [] sh.k = "enum"  -> word_serialize_enum(output, sh, v)

\* src/serializer.rs to_bytes: a new CustomSerializer, the value, its output.
word_to_bytes(sh, v) == word_serialize(<< >>, sh, v)

(***************************************************************************)
(* Target types                                                            *)
(***************************************************************************)

U8     == [k |-> "uint", w |-> 1]
U16    == [k |-> "uint", w |-> 2]
U32    == [k |-> "uint", w |-> 4]
U64    == [k |-> "uint", w |-> 8]
I8     == [k |-> "int", w |-> 1]
I16    == [k |-> "int", w |-> 2]
I32    == [k |-> "int", w |-> 4]
I64    == [k |-> "int", w |-> 8]
F32    == [k |-> "float", w |-> 4]
F64    == [k |-> "float", w |-> 8]
Bool   == [k |-> "bool"]
Char   == [k |-> "char"]
String == [k |-> "str"]
Option(sh) == [k |-> "opt", of |-> sh]
Vec(sh)    == [k |-> "seq", of |-> sh]
Map(ksh, vsh)   == [k |-> "map", key |-> ksh, val |-> vsh]
Field(name, sh) == [name |-> name, sh |-> sh]
Struct(fields)  == [k |-> "struct", fields |-> fields]
Variant(kind, fields) == [kind |-> kind, fields |-> fields]
Enum(variants)  == [k |-> "enum", variants |-> variants]

\* The UTF-8 bytes of the field names and string values used below.
Str_a     == <<97>>
Str_b     == <<98>>
Str_c     == <<99>>
Str_d     == <<100>>
Str_e     == <<101>>
Str_f     == <<102>>
Str_g     == <<103>>
Str_h     == <<104>>
Str_i     == <<105>>
Str_j     == <<106>>
Str_k     == <<107>>
Str_l     == <<108>>
Str_m     == <<109>>
Str_name  == <<110, 97, 109, 101>>
Str_age   == <<97, 103, 101>>
Str_Ayush == <<65, 121, 117, 115, 104>>
Str_hello == <<104, 101, 108, 108, 111>>

\* struct Human { name: String, age: u8 } of the readme_example test.
Human == Struct(<<Field(Str_name, String), Field(Str_age, U8)>>)

\* A struct of one field.
One == Struct(<<Field(Str_a, U8)>>)

\* struct Primitives of the tests.
Primitives ==
    Struct(<<Field(Str_a, U8), Field(Str_b, U16), Field(Str_c, U32), Field(Str_d, U64),
             Field(Str_e, I8), Field(Str_f, I16), Field(Str_g, I32), Field(Str_h, I64),
             Field(Str_i, F32), Field(Str_j, F64), Field(Str_k, Bool), Field(Str_l, Char),
             Field(Str_m, String)>>)

\* Primitives without its two float fields.
Prims ==
    Struct(<<Field(Str_a, U8), Field(Str_b, U16), Field(Str_c, U32), Field(Str_d, U64),
             Field(Str_e, I8), Field(Str_f, I16), Field(Str_g, I32), Field(Str_h, I64),
             Field(Str_k, Bool), Field(Str_l, Char), Field(Str_m, String)>>)

\* enum SomeEnum { A { a: u8, b: u16 }, B(u8), C } of main.rs.
SomeEnum ==
    Enum(<<Variant("struct", <<Field(Str_a, U8), Field(Str_b, U16)>>),
           Variant("newtype", <<Field(<< >>, U8)>>),
           Variant("unit", << >>)>>)

\* An enum around an enum: a newtype variant that holds a Kinds, and a tuple variant
\* of no fields.
Outer ==
    Enum(<<Variant("newtype", <<Field(<< >>,
               Enum(<<Variant("unit", << >>),
                      Variant("newtype", <<Field(<< >>, U8)>>),
                      Variant("tuple", <<Field(<< >>, U8), Field(<< >>, U8)>>),
                      Variant("struct", <<Field(Str_a, U8)>>)>>))>>),
           Variant("tuple", << >>)>>)

\* The four variant kinds in another order: unit, newtype, tuple, struct.
Kinds ==
    Enum(<<Variant("unit", << >>),
           Variant("newtype", <<Field(<< >>, U8)>>),
           Variant("tuple", <<Field(<< >>, U8), Field(<< >>, U8)>>),
           Variant("struct", <<Field(Str_a, U8)>>)>>)

TypeNames ==
    {"U8", "U16", "U32", "U64", "I8", "I16", "I32", "I64", "F32", "F64", "Bool", "Char",
     "String", "OptU8", "VecU8", "VecVecU8", "MapStrU8", "One", "Human", "Prims", "Primitives", "SomeEnum", "Kinds"}

Shape(t) ==
    CASE t = "U8" -> U8 [] t = "U16" -> U16 [] t = "U32" -> U32 [] t = "U64" -> U64
      [] t = "I8" -> I8 [] t = "I16" -> I16 [] t = "I32" -> I32 [] t = "I64" -> I64
      [] t = "F32" -> F32 [] t = "F64" -> F64
      [] t = "Bool" -> Bool [] t = "Char" -> Char [] t = "String" -> String
      [] t = "OptU8" -> Option(U8)
      [] t = "VecU8" -> Vec(U8)
      [] t = "VecVecU8" -> Vec(Vec(U8))
      [] t = "MapStrU8" -> Map(String, U8)
      [] t = "One" -> One [] t = "Human" -> Human
      [] t = "Prims" -> Prims [] t = "Primitives" -> Primitives
      [] t = "SomeEnum" -> SomeEnum [] t = "Kinds" -> Kinds
      [] t = "Outer" -> Outer

(***************************************************************************)
(* Bounds and the values drawn within them                                 *)
(***************************************************************************)

\* The longest Vec<u8> encoded.
MaxSeqLen == 2
\* The longest caller-supplied buffer decoded as a String, in bytes.
MaxRawLen == 3
\* The largest variant index placed in a caller-supplied enum buffer.
MaxVariantIndex == 6

\* The longest buffer a deserializer is opened on for single method calls, in bytes.
MaxCursorBytes == 3

\* The number of threads that call to_bytes and from_bytes.
MaxThreads == 2

\* u8 values: plain ones, ones whose low or high three bits are a token's pattern,
\* and the String delimiter's byte.
SampleU8 == {0, 1, 2, 3, 19, 96, 134, 255}

\* "", "Ayush", "hello" and U+0186, whose UTF-8 bytes are C6 86.
SampleStrings == {<< >>, Str_Ayush, Str_hello, <<198, 134>>}

RECURSIVE SeqsUpTo(_, _)
SeqsUpTo(S, n) ==
    IF n = 0 THEN {<< >>}
    ELSE LET shorter == SeqsUpTo(S, n - 1)
         IN  shorter \cup {Append(q, x) : q \in {r \in shorter : Len(r) = n - 1}, x \in S}

EnumValue(idx, fields) == [idx |-> idx, fields |-> fields]

\* The values handed to to_bytes, by type.
Values(t) ==
    CASE t = "U8"  -> SampleU8
      [] t = "U16" -> {1, 258, 65535}
      [] t = "U32" -> {3, 65536, 2147483647}
      [] t = "U64" -> {4, 2147483647}
      [] t = "I8"  -> {-128, -1, 0, 127}
      [] t = "I16" -> {-32768, -2, 32767}
      [] t = "I32" -> {-3, 2147483647}
      [] t = "I64" -> {-4, 1}
      [] t = "F32" -> {<<0, 0, 128, 63>>}
      [] t = "F64" -> {<<0, 0, 0, 0, 0, 0, 0, 64>>}
      [] t = "Bool" -> BOOLEAN
      [] t = "Char" -> {97, 8364, 1114111}
      [] t = "String" -> SampleStrings
      [] t = "OptU8" -> {<< >>} \cup {<<x>> : x \in 0..255}
      [] t = "VecU8" -> SeqsUpTo(SampleU8, MaxSeqLen)
      [] t = "VecVecU8" -> SeqsUpTo(SeqsUpTo({1}, MaxSeqLen), MaxSeqLen)
      [] t = "MapStrU8" ->
            {<< >>}
            \cup {<<<<k, x>>>> : k \in {Str_a, Str_b}, x \in {1, 96}}
            \cup {<<<<k[1], x>>, <<k[2], y>>>> :
                    k \in {<<Str_a, Str_b>>, <<Str_b, Str_a>>}, x \in {1, 96}, y \in {1, 96}}
      [] t = "One" -> {<<x>> : x \in SampleU8}
      [] t = "Human" -> {<<n, x>> : n \in SampleStrings, x \in SampleU8}
      [] t = "Prims" ->
            {<<a, 2, 3, 4, -1, -2, -3, -4, k, 97, m>> :
                a \in {1, 96}, k \in BOOLEAN, m \in {Str_hello, << >>}}
      [] t = "Primitives" ->
            {<<1, 2, 3, 4, -1, -2, -3, -4, <<0, 0, 128, 63>>, <<0, 0, 0, 0, 0, 0, 0, 64>>,
               k, 97, Str_hello>> : k \in BOOLEAN}
      [] t = "SomeEnum" ->
            {EnumValue(0, <<a, b>>) : a \in SampleU8, b \in {0, 5156}}
            \cup {EnumValue(1, <<x>>) : x \in SampleU8}
            \cup {EnumValue(2, << >>)}
      [] t = "Kinds" ->
            {EnumValue(0, << >>)}
            \cup {EnumValue(1, <<x>>) : x \in SampleU8}
            \cup {EnumValue(2, <<x, y>>) : x \in SampleU8, y \in SampleU8}
            \cup {EnumValue(3, <<a>>) : a \in SampleU8}
      [] t = "Outer" ->
            {EnumValue(0, <<EnumValue(0, << >>)>>), EnumValue(1, << >>)}
            \cup {EnumValue(0, <<EnumValue(1, <<x>>)>>) : x \in {1, 135}}
            \cup {EnumValue(0, <<EnumValue(2, <<x, y>>)>>) : x \in {1, 135}, y \in {1, 135}}
            \cup {EnumValue(0, <<EnumValue(3, <<a>>)>>) : a \in {1, 135}}

\* size_of::<T>() of the fixed-width types of more than one byte.
FixedWidthTypes == {"U16", "U32", "U64", "I16", "I32", "I64", "F32", "F64", "Char"}
Width(t) == IF t = "Char" THEN 4 ELSE Shape(t).w

EnumTypes == {"SomeEnum", "Kinds"}

\* Bytes of caller-supplied String buffers: 'A', the String delimiter, a UTF-8
\* lead byte and a byte no UTF-8 text holds.
RawStrBytes == {65, 134, 194, 255}

\* u32 values around the two gaps of the Unicode scalar values.
RawCodePoints == {97, 55295, 55296, 57343, 57344, 1114111, 1114112}

\* The types decoded from caller-supplied buffers, and the buffers, by type.
RawTypes == {"String", "MapStrU8"} \cup FixedWidthTypes \cup EnumTypes

\* Entries of caller-supplied map buffers: one key twice, and two keys.
RawEntries ==
    {<<<<Str_a, 1>>, <<Str_a, 2>>>>, <<<<Str_a, 1>>, <<Str_b, 2>>>>,
     <<<<Str_a, 1>>, <<Str_b, 2>>, <<Str_a, 96>>>>}

\* Bytes of the buffers single methods are called on: the Seq and SeqValue patterns
\* in the low bits, and the String delimiter.
CursorBytes == {3, 4, 134}

\* What may follow an encoding in the caller's buffer: nothing, a byte of ones, or
\* the byte that holds the Map token.
TrailingBytes == {<< >>, <<255>>, <<5>>}

RawInputs(t) ==
    CASE t = "String" -> SeqsUpTo(RawStrBytes, MaxRawLen)
      [] t = "MapStrU8" ->
            {into_vec(serialize_entries(<< >>, Shape(t), es).data \o view_bits(<<5>>)) :
                es \in RawEntries}
      [] t \in EnumTypes ->
            {to_le_bytes(i, 4) \o p :
                i \in (0..MaxVariantIndex) \cup {256}, p \in {<< >>, <<27, 24>>}}
      [] t \in FixedWidthTypes ->
            {SubSeq(to_le_bytes(513, 8), 1, n) : n \in 0..Width(t)}
            \cup (IF t = "Char" THEN {to_le_bytes(c, 4) : c \in RawCodePoints} ELSE {})

(***************************************************************************)
(* The calls: a value is encoded by to_bytes and its bytes, whole or        *)
(* truncated, are decoded by from_bytes; or from_bytes decodes a buffer the *)
(* caller supplies.                                                        *)
(***************************************************************************)

VARIABLES
    pc,      \* "idle", "encoded", "truncated", "padded", "supplied" or "decoded"
    ty,      \* the type of the value encoded and the target type decoded
    value,   \* the value given to to_bytes
    data,    \* the serializer's bit buffer when to_bytes returns
    bytes,   \* the bytes to_bytes returned
    input,   \* the bytes given to from_bytes
    origin,  \* where input comes from: "encoded", "truncated", "padded" or "raw"
    result   \* what from_bytes returned

\* A CustomDeserializer whose methods are called one at a time, as from_bytes builds
\* it and the Deserialize impls drive it.
VARIABLES
    cpc,     \* "closed", "open", "seq" (a SequenceDeserializer borrows it) or "panicked"
    cbuf,    \* the bits of the caller's buffer
    cur,     \* self.data, the input not yet consumed
    first,   \* SequenceDeserializer::first
    last     \* the last method call: its name, arguments, self before it and result

\* Threads that call to_bytes and from_bytes on Vec<u8>, one serializer or
\* deserializer method at a time.
VARIABLES
    th,           \* by thread: where its call is, the call's argument and locals, its result
    mem,          \* by stack frame: the data of the CustomSerializer / CustomDeserializer in it
    first_output  \* by value: << >>, or <<bytes>> for the first bytes to_bytes returned for it

\* to_bytes of one of the three encoders, called on a value.
VARIABLES
    enc,     \* "none", or the encoder called: "protocol", "second" or "word"
    ety,     \* the type of the value
    evalue,  \* the value
    ebuf,    \* the serializer's buffer when the call ends: bits (protocol) or bytes
    eout     \* what to_bytes returned, or the panic that ended it

codec_vars == <<pc, ty, value, data, bytes, input, origin, result>>
cursor_vars == <<cpc, cbuf, cur, first, last>>
thread_vars == <<th, mem, first_output>>
encoder_vars == <<enc, ety, evalue, ebuf, eout>>

vars ==
    <<pc, ty, value, data, bytes, input, origin, result, cpc, cbuf, cur, first, last,
      th, mem, first_output, enc, ety, evalue, ebuf, eout>>

Threads == 1..MaxThreads

\* The Vec<u8> values the threads encode and the buffers they decode: the encodings
\* of vec![1] and vec![96, 1], and the first cut after its first byte.
ThreadVecs == {<<1>>, <<96, 1>>}
ThreadInputs == {<<11, 24>>, <<3, 11, 24>>, <<11>>}

NoReturn == [st |-> "none", out |-> << >>, err |-> ""]

IdleThread ==
    [pc |-> "idle", op |-> "none", arg |-> << >>, todo |-> << >>, acc |-> << >>,
     first |-> FALSE, ret |-> NoReturn, mixed |-> FALSE]

NoCall ==
    [op |-> "none", token |-> "", n |-> 0, before |-> << >>, first |-> FALSE,
     st |-> "none", err |-> "", val |-> << >>]

NoResult == [st |-> "none", val |-> << >>, rest |-> << >>, err |-> ""]

Init ==
    /\ pc = "idle"
    /\ ty = "none"
    /\ value = << >>
    /\ data = << >>
    /\ bytes = << >>
    /\ input = << >>
    /\ origin = "none"
    /\ result = NoResult
    /\ cpc = "closed"
    /\ cbuf = << >>
    /\ cur = << >>
    /\ first = FALSE
    /\ last = NoCall
    /\ th = [t \in Threads |-> IdleThread]
    /\ mem = [t \in Threads |-> << >>]
    /\ first_output = [v \in ThreadVecs |-> << >>]
    /\ enc = "none"
    /\ ety = "none"
    /\ evalue = << >>
    /\ ebuf = << >>
    /\ eout = [st |-> "none", data |-> << >>, err |-> ""]

\* to_bytes(&v) for a value v of type t.
Encode(t, v) ==
    /\ pc = "idle"
    /\ to_bytes(Shape(t), v).st = "ok"
    /\ pc' = "encoded"
    /\ ty' = t
    /\ value' = v
    /\ data' = serialize(<< >>, Shape(t), v).data
    /\ bytes' = to_bytes(Shape(t), v).data
    /\ input' = to_bytes(Shape(t), v).data
    /\ origin' = "encoded"
    /\ UNCHANGED result
    /\ UNCHANGED <<cursor_vars, thread_vars, encoder_vars>>

\* The caller keeps only the first n bytes of an encoding.
Truncate(n) ==
    /\ pc = "encoded"
    /\ n < Len(bytes)
    /\ pc' = "truncated"
    /\ input' = SubSeq(bytes, 1, n)
    /\ origin' = "truncated"
    /\ UNCHANGED <<ty, value, data, bytes, result>>
    /\ UNCHANGED <<cursor_vars, thread_vars, encoder_vars>>

\* The caller hands over the bits the encoder wrote in a buffer of its own: the unused
\* bits of the last byte are all pad, and the bytes of trailing follow.
Pad(pad, trailing) ==
    /\ pc = "encoded"
    /\ pc' = "padded"
    /\ input' = into_vec(data \o [i \in 1..((8 - (Len(data) % 8)) % 8) |-> pad]) \o trailing
    /\ origin' = "padded"
    /\ UNCHANGED <<ty, value, data, bytes, result>>
    /\ UNCHANGED <<cursor_vars, thread_vars, encoder_vars>>

\* The caller supplies a buffer of its own for target type t.
Supply(t, b) ==
    /\ pc = "idle"
    /\ pc' = "supplied"
    /\ ty' = t
    /\ input' = b
    /\ origin' = "raw"
    /\ UNCHANGED <<value, data, bytes, result>>
    /\ UNCHANGED <<cursor_vars, thread_vars, encoder_vars>>

\* from_bytes::<T>(&input).
Decode ==
    /\ pc \in {"encoded", "truncated", "padded", "supplied"}
    /\ pc' = "decoded"
    /\ result' = from_bytes(input, Shape(ty))
    /\ UNCHANGED <<ty, value, data, bytes, input, origin>>
    /\ UNCHANGED <<cursor_vars, thread_vars, encoder_vars>>

Next ==
    \/ \E t \in TypeNames : \E v \in Values(t) : Encode(t, v)
    \/ \E n \in 0..(Len(bytes) - 1) : Truncate(n)
    \/ \E pad \in BOOLEAN : \E trailing \in TrailingBytes : Pad(pad, trailing)
    \/ \E t \in RawTypes : \E b \in RawInputs(t) : Supply(t, b)
    \/ Decode

Spec == Init /\ [][Next]_vars

(***************************************************************************)
(* The deserializer's methods, called one at a time on an open cursor       *)
(***************************************************************************)

\* from_bytes, lines 32-34: a CustomDeserializer over all the bits of the buffer.
Open(b) ==
    /\ cpc = "closed"
    /\ cpc' = "open"
    /\ cbuf' = view_bits(b)
    /\ cur' = view_bits(b)
    /\ UNCHANGED <<first, last>>
    /\ UNCHANGED <<codec_vars, thread_vars, encoder_vars>>

\* A method of CustomDeserializer returns r: self.data is moved by an Ok that
\* consumed input, an Err leaves it where the method left it, a panic ends the call.
Returns(op, token, n, r, left) ==
    /\ cpc \in {"open", "seq"}
    /\ last' = [op |-> op, token |-> token, n |-> n, before |-> cur, first |-> first,
                st |-> r.st, err |-> r.err, val |-> r.val]
    /\ cur' = IF r.st = "ok" THEN r.rest ELSE left
    /\ cpc' = IF r.st = "panic" THEN "panicked" ELSE cpc
    /\ UNCHANGED cbuf
    /\ UNCHANGED <<codec_vars, thread_vars, encoder_vars>>

\* from_bytes on what to_bytes returns when the serializer wrote one token and nothing
\* else.
OpenWritten(token) ==
    /\ token \in Delimiter
    /\ Open(into_vec(serialize_token(<< >>, token)))

PeekByte == Returns("peek_byte", "", 0, de_peek_byte(cur), cur) /\ UNCHANGED first

PeekToken(token) ==
    Returns("peek_token", token, 0, de_peek_token(cur, token), cur) /\ UNCHANGED first

EatBit == Returns("eat_bit", "", 0, eat_bit(cur), cur) /\ UNCHANGED first

EatByte == Returns("eat_byte", "", 0, eat_byte(cur), cur) /\ UNCHANGED first

EatBytes(n) == Returns("eat_bytes", "", n, eat_bytes(cur, n), cur) /\ UNCHANGED first

EatToken(token) ==
    Returns("eat_token", token, 0, eat_token(cur, token), cur) /\ UNCHANGED first

DeserializeAny ==
    Returns("deserialize_any", "", 0, deserialize_any(cur), cur) /\ UNCHANGED first

DeserializeIgnoredAny ==
    Returns("deserialize_ignored_any", "", 0, deserialize_ignored_any(cur), cur)
    /\ UNCHANGED first

\* deserialize_seq, line 468: SequenceDeserializer::new(self).
NewSequence ==
    /\ cpc = "open"
    /\ cpc' = "seq"
    /\ first' = new_sequence_deserializer
    /\ UNCHANGED <<cbuf, cur, last>>
    /\ UNCHANGED <<codec_vars, thread_vars, encoder_vars>>

\* next_element_seed with u8 as the element type.
NextElement ==
    /\ cpc = "seq"
    /\ Returns("next_element_seed", "", 0, next_element_seed(cur, first, U8),
               next_element_seed_prologue(cur, first).data)
    /\ first' = next_element_seed_prologue(cur, first).first

CursorNext ==
    \/ \E b \in SeqsUpTo(CursorBytes, MaxCursorBytes) : Open(b)
    \/ \E token \in Delimiter : OpenWritten(token)
    \/ PeekByte
    \/ \E token \in Delimiter : PeekToken(token)
    \/ EatBit
    \/ EatByte
    \/ \E n \in 1..MaxCursorBytes : EatBytes(n)
    \/ \E token \in Delimiter : EatToken(token)
    \/ DeserializeAny
    \/ DeserializeIgnoredAny
    \/ NewSequence
    \/ NextElement

CursorSpec == Init /\ [][CursorNext]_vars

(***************************************************************************)
(* Concurrent calls: every thread runs to_bytes(&Vec<u8>) and               *)
(* from_bytes::<Vec<u8>> calls one after the other, and the threads'        *)
(* method calls interleave in every order.                                  *)
(***************************************************************************)

\* Where the serializer or deserializer of thread t's call lives: a static that all
\* the threads share.
frame_shared(t) == 1

\* Where the serializer or deserializer of thread t's call lives: a local variable
\* of to_bytes / from_bytes, in the frame of the thread's own call.
frame(t) == t

\* A serializer kept from the thread's previous call, with its buffer as it was.
new_serializer_reused(t) == mem[frame(t)]

\* to_bytes, lines 61-63: CustomSerializer { data: BitVec::new() }.
new_serializer(t) == << >>

Running(t) == th[t].pc \notin {"idle", "returned"}

\* Thread t's call moves to rec; every other running call has now seen another
\* thread's step in its midst.
Advance(t, rec) ==
    [u \in Threads |->
        IF u = t THEN rec
        ELSE IF Running(u) THEN [th[u] EXCEPT !.mixed = TRUE]
        ELSE th[u]]

\* Thread t's call returns ret.
Return(t, ret) == Advance(t, [th[t] EXCEPT !.pc = "returned", !.ret = ret])

\* to_bytes(&v) is called.
TCallToBytes(t, v) ==
    /\ ~Running(t)
    /\ th' = Advance(t, [IdleThread EXCEPT !.pc = "created", !.op = "to_bytes",
                                           !.arg = v, !.todo = v])
    /\ mem' = [mem EXCEPT ![frame(t)] = new_serializer(t)]
    /\ UNCHANGED first_output
    /\ UNCHANGED <<codec_vars, cursor_vars, encoder_vars>>

\* Vec's Serialize impl: serialize_seq.
TSerializeSeq(t) ==
    /\ th[t].pc = "created"
    /\ th' = Advance(t, [th[t] EXCEPT !.pc = "elements"])
    /\ mem' = [mem EXCEPT ![frame(t)] = serialize_seq(mem[frame(t)]).data]
    /\ UNCHANGED first_output
    /\ UNCHANGED <<codec_vars, cursor_vars, encoder_vars>>

\* Vec's Serialize impl: serialize_element for the next element.
TSerializeElement(t) ==
    /\ th[t].pc = "elements"
    /\ Len(th[t].todo) > 0
    /\ LET r == serialize_element(mem[frame(t)], U8, th[t].todo[1])
       IN  IF r.st = "ok"
           THEN /\ th' = Advance(t, [th[t] EXCEPT !.todo = Tail(th[t].todo)])
                /\ mem' = [mem EXCEPT ![frame(t)] = r.data]
           ELSE /\ th' = Return(t, [st |-> r.st, out |-> << >>, err |-> r.err])
                /\ UNCHANGED mem
    /\ UNCHANGED first_output
    /\ UNCHANGED <<codec_vars, cursor_vars, encoder_vars>>

\* Vec's Serialize impl: SerializeSeq::end.
TSeqEnd(t) ==
    /\ th[t].pc = "elements"
    /\ Len(th[t].todo) = 0
    /\ th' = Advance(t, [th[t] EXCEPT !.pc = "ended"])
    /\ mem' = [mem EXCEPT ![frame(t)] = seq_end(mem[frame(t)]).data]
    /\ UNCHANGED first_output
    /\ UNCHANGED <<codec_vars, cursor_vars, encoder_vars>>

\* to_bytes, line 65: Ok(serializer.data.into_vec()).
TToBytesReturn(t) ==
    /\ th[t].pc = "ended"
    /\ LET out == into_vec(mem[frame(t)])
       IN  /\ th' = Return(t, [st |-> "ok", out |-> out, err |-> ""])
           /\ first_output' =
                  IF Len(first_output[th[t].arg]) = 0
                  THEN [first_output EXCEPT ![th[t].arg] = <<out>>]
                  ELSE first_output
    /\ UNCHANGED mem
    /\ UNCHANGED <<codec_vars, cursor_vars, encoder_vars>>

\* from_bytes::<Vec<u8>>(&b) is called: a CustomDeserializer over the bits of b.
TCallFromBytes(t, b) ==
    /\ ~Running(t)
    /\ th' = Advance(t, [IdleThread EXCEPT !.pc = "opened", !.op = "from_bytes", !.arg = b])
    /\ mem' = [mem EXCEPT ![frame(t)] = view_bits(b)]
    /\ UNCHANGED first_output
    /\ UNCHANGED <<codec_vars, cursor_vars, encoder_vars>>

\* deserialize_seq, lines 465-468: the opening token and a new SequenceDeserializer.
TDeserializeSeq(t) ==
    /\ th[t].pc = "opened"
    /\ LET e == expect_token(mem[frame(t)], "Seq")
       IN  IF e.st = "ok"
           THEN /\ th' = Advance(t, [th[t] EXCEPT !.pc = "pulling",
                                                  !.first = new_sequence_deserializer])
                /\ mem' = [mem EXCEPT ![frame(t)] = e.rest]
           ELSE /\ th' = Return(t, [st |-> e.st, out |-> << >>, err |-> e.err])
                /\ UNCHANGED mem
    /\ UNCHANGED first_output
    /\ UNCHANGED <<codec_vars, cursor_vars, encoder_vars>>

\* Vec's visitor: one next_element call.
TNextElement(t) ==
    /\ th[t].pc = "pulling"
    /\ LET r == next_element_seed(mem[frame(t)], th[t].first, U8)
       IN  IF r.st # "ok"
           THEN /\ th' = Return(t, [st |-> r.st, out |-> << >>, err |-> r.err])
                /\ UNCHANGED mem
           ELSE IF Len(r.val) = 0
           THEN /\ th' = Advance(t, [th[t] EXCEPT !.pc = "closing"])
                /\ UNCHANGED mem
           ELSE /\ th' = Advance(t, [th[t] EXCEPT !.acc = Append(th[t].acc, r.val[1]),
                                                  !.first = FALSE])
                /\ mem' = [mem EXCEPT ![frame(t)] = r.rest]
    /\ UNCHANGED first_output
    /\ UNCHANGED <<codec_vars, cursor_vars, encoder_vars>>

\* deserialize_seq, lines 469-473, and from_bytes, line 36: the closing token, then
\* Ok of the collected Vec.
TFromBytesReturn(t) ==
    /\ th[t].pc = "closing"
    /\ LET e == expect_token(mem[frame(t)], "Seq")
       IN  IF e.st = "ok"
           THEN /\ th' = Return(t, [st |-> "ok", out |-> th[t].acc, err |-> ""])
                /\ mem' = [mem EXCEPT ![frame(t)] = e.rest]
           ELSE /\ th' = Return(t, [st |-> e.st, out |-> << >>, err |-> e.err])
                /\ UNCHANGED mem
    /\ UNCHANGED first_output
    /\ UNCHANGED <<codec_vars, cursor_vars, encoder_vars>>

ThreadNext ==
    \/ \E t \in Threads : \E v \in ThreadVecs : TCallToBytes(t, v)
    \/ \E t \in Threads : TSerializeSeq(t)
    \/ \E t \in Threads : TSerializeElement(t)
    \/ \E t \in Threads : TSeqEnd(t)
    \/ \E t \in Threads : TToBytesReturn(t)
    \/ \E t \in Threads : \E b \in ThreadInputs : TCallFromBytes(t, b)
    \/ \E t \in Threads : TDeserializeSeq(t)
    \/ \E t \in Threads : TNextElement(t)
    \/ \E t \in Threads : TFromBytesReturn(t)

ThreadSpec == Init /\ [][ThreadNext]_vars

(***************************************************************************)
(* The three encoders side by side: to_bytes of protocol/serializer.rs, of  *)
(* second/serializer.rs and of serializer.rs, each called on a value.       *)
(***************************************************************************)

\* The types the encoders are called on.
EncoderTypes == TypeNames \cup {"Outer"}

\* A to_bytes call ends with r, the serializer's buffer when it ends (that of the
\* last Ok step is not kept by an Err or a panic), and out, what the caller gets.
Called(which, t, v, r, out) ==
    /\ enc' = which
    /\ ety' = t
    /\ evalue' = v
    /\ ebuf' = r.data
    /\ eout' = out
    /\ UNCHANGED <<codec_vars, cursor_vars, thread_vars>>

\* protocol::serializer::to_bytes(&v).
ProtocolToBytes(t, v) ==
    /\ enc = "none"
    /\ Called("protocol", t, v, serialize(<< >>, Shape(t), v), to_bytes(Shape(t), v))

\* second::serializer::to_bytes(&v).
MinimalToBytes(t, v) ==
    /\ enc = "none"
    /\ Called("second", t, v, min_serialize(<< >>, Shape(t), v), min_to_bytes(Shape(t), v))

\* serializer::to_bytes(&v).
WordToBytes(t, v) ==
    /\ enc = "none"
    /\ Called("word", t, v, word_serialize(<< >>, Shape(t), v), word_to_bytes(Shape(t), v))

EncoderNext ==
    \/ \E t \in EncoderTypes : \E v \in Values(t) : ProtocolToBytes(t, v)
    \/ \E t \in EncoderTypes : \E v \in Values(t) : MinimalToBytes(t, v)
    \/ \E t \in EncoderTypes : \E v \in Values(t) : WordToBytes(t, v)

EncoderSpec == Init /\ [][EncoderNext]_vars

(***************************************************************************)
(* Properties                                                              *)
(***************************************************************************)

\* from_bytes has returned for the bytes to_bytes produced, untouched.
RoundTripped == pc = "decoded" /\ origin = "encoded"

\* from_bytes returned Ok(v).
ReturnedOk(v) == result.st = "ok" /\ result.val = v

\* C1: every struct of integer, bool, char and String fields decodes from its own
\* encoding to an equal value.
C1_StructRoundTrip ==
    (RoundTripped /\ ty \in {"One", "Human", "Prims"}) => ReturnedOk(value)

\* C2: every Vec<u8> decodes from its own encoding to the same elements in the
\* same order.
C2_VecRoundTrip ==
    (RoundTripped /\ ty = "VecU8") => ReturnedOk(value)

\* The bits of a sequence of u8 laid out as the format describes it: the opening
\* token, the elements with one SeqValue token between neighbours, the closing token.
RECURSIVE SeqLayoutTail(_)
SeqLayoutTail(vs) ==
    IF Len(vs) = 0 THEN <<TRUE, TRUE, FALSE>>
    ELSE <<FALSE, FALSE, TRUE>> \o byte_to_bits(vs[1]) \o SeqLayoutTail(Tail(vs))

SeqLayout(vs) ==
    IF Len(vs) = 0 THEN <<TRUE, TRUE, FALSE, TRUE, TRUE, FALSE>>
    ELSE <<TRUE, TRUE, FALSE>> \o byte_to_bits(vs[1]) \o SeqLayoutTail(Tail(vs))

\* C3: a sequence of n >= 1 elements is written with no separator before the first
\* element and exactly one between neighbours, n - 1 in all, whatever the elements.
C3_SeparatorPlacement ==
    (pc = "encoded" /\ ty = "VecU8" /\ Len(value) >= 1) =>
        /\ Len(data) = 3 + 8 * Len(value) + 3 * (Len(value) - 1) + 3
        /\ data = SeqLayout(value)

\* None is written as the Unit token and Some(x) as the byte x.
OptionEncoding ==
    IF Len(value) = 0 THEN data = <<FALSE, TRUE, FALSE>>
    ELSE data = byte_to_bits(value[1])

\* C4 as stated: None is the Unit token and decodes to None; Some(x) is x's own
\* encoding and decodes to Some(x), for every u8 x.
C4_OptionRoundTrip ==
    (RoundTripped /\ ty = "OptU8") => (OptionEncoding /\ ReturnedOk(value))

\* C4 amended: None is the Unit token and decodes to None; Some(x) is x's own
\* encoding, and decodes to Some(x) when the low three bits of x are not the Unit
\* pattern 010, and to None when they are.
C4_OptionRoundTripUnlessUnit ==
    (RoundTripped /\ ty = "OptU8") =>
        /\ OptionEncoding
        /\ IF Len(value) = 1 /\ value[1] % 8 = 2
           THEN ReturnedOk(<< >>)
           ELSE ReturnedOk(value)

\* Some(1) was encoded and decoded to Some(1).
C4_Witness ==
    /\ RoundTripped /\ ty = "OptU8"
    /\ value = <<1>> /\ data = byte_to_bits(1) /\ result.st = "ok" /\ result.val = <<1>>

\* C5: every value of an enum with a unit, a newtype, a tuple and a struct variant
\* decodes from its own encoding to the same variant with the same payload.
C5_EnumRoundTrip ==
    (RoundTripped /\ ty \in EnumTypes) =>
        /\ result.st = "ok"
        /\ result.val.idx = value.idx
        /\ result.val.fields = value.fields

\* The u32 the first four bytes of the input hold, little-endian.
InputU32 == input[1] + 256 * input[2] + 65536 * input[3] + 16777216 * input[4]

\* C6: an enum input whose u32 variant index is no variant's ordinal is answered
\* with an error of serde's invalid-value kind: no panic, no variant.
C6_UnknownVariantIndex ==
    (/\ pc = "decoded" /\ origin = "raw" /\ ty \in EnumTypes
     /\ Len(input) >= 4 /\ InputU32 >= Len(Shape(ty).variants)) =>
        (result.st = "err" /\ result.err = "DeserializationError")

\* An input with variant index 3, one past SomeEnum's last variant, was rejected.
C6_Witness ==
    /\ pc = "decoded" /\ origin = "raw" /\ ty = "SomeEnum"
    /\ Len(input) >= 4 /\ InputU32 = 3
    /\ result.st = "err" /\ result.err = "DeserializationError"

\* The errors that say the input ended early or a token is missing.
TruncationErrors ==
    {"UnexpectedEOF", "NLargerThanLength"}
    \cup {"ExpectedDelimiter(Seq)", "ExpectedDelimiter(SeqValue)", "ExpectedDelimiter(Map)",
          "ExpectedDelimiter(MapKey)", "ExpectedDelimiter(MapValue)", "ExpectedDelimiter(Unit)"}

\* C7: every truncation of a valid encoding is answered with an unexpected-end or
\* expected-token error: no panic, no Ok.
C7_TruncatedInput ==
    (pc = "decoded" /\ origin = "truncated") =>
        (result.st = "err" /\ result.err \in TruncationErrors)

\* C8: a fixed-width primitive of N bytes decoded from fewer than N bytes is
\* answered with UnexpectedEOF.
C8_ShortPrimitive ==
    (/\ pc = "decoded" /\ origin = "raw" /\ ty \in FixedWidthTypes
     /\ Len(input) < Width(ty)) =>
        (result.st = "err" /\ result.err = "UnexpectedEOF")

\* C9: a char decoded from a u32 that is a surrogate or above 0x10FFFF is answered
\* with an error: no panic, no char.
C9_InvalidCharCode ==
    (/\ pc = "decoded" /\ origin = "raw" /\ ty = "Char" /\ Len(input) = 4
     /\ (InputU32 > 1114111 \/ (InputU32 >= 55296 /\ InputU32 <= 57343))) =>
        result.st = "err"

\* The payload of a String input: its bytes before the first String delimiter that
\* follows at least one byte (parse_str takes one byte before it looks for one).
HasPayload(i) ==
    /\ i \in 2..Len(input)
    /\ input[i] = 134
    /\ \A j \in 2..(i - 1) : input[j] # 134

\* C10: a String input whose payload is not well-formed UTF-8 is answered with the
\* conversion error, and no string.
C10_InvalidUtf8 ==
    (pc = "decoded" /\ origin = "raw" /\ ty = "String") =>
        \A i \in 2..Len(input) :
            (HasPayload(i) /\ ~from_utf8_is_ok(SubSeq(input, 1, i - 1))) =>
                (result.st = "err" /\ result.err = "ConversionError")

\* The input C2 86: the payload is the lone lead byte C2, and it was rejected.
C10_Witness ==
    /\ pc = "decoded" /\ origin = "raw" /\ ty = "String"
    /\ input = <<194, 134>>
    /\ result.st = "err" /\ result.err = "ConversionError"

\* C12: an empty sequence is written as the opening Seq token and the closing Seq
\* token, six bits with nothing between them, and decodes to an empty collection
\* with both tokens consumed: only the two padding bits of the byte are left.
C12_EmptySequence ==
    (RoundTripped /\ ty = "VecU8" /\ Len(value) = 0) =>
        /\ data = <<TRUE, TRUE, FALSE, TRUE, TRUE, FALSE>>
        /\ result.st = "ok"
        /\ result.val = << >>
        /\ result.rest = <<FALSE, FALSE>>

\* vec![] was encoded as the byte 0x1B and decoded to an empty Vec.
C12_Witness ==
    /\ RoundTripped /\ ty = "VecU8" /\ Len(value) = 0
    /\ bytes = <<27>> /\ result.st = "ok" /\ Len(result.val) = 0

\* The bits of a String key and a u8 value as one map entry of the claimed layout
\* writes them: the key, the MapKey token, the value.
EntryBits(e) ==
    view_bits(e[1]) \o <<FALSE, TRUE, TRUE, FALSE, FALSE, FALSE, FALSE, TRUE>>
        \o <<FALSE, TRUE, TRUE>> \o byte_to_bits(e[2])

\* The layout C18 states: a start token, the entries with one separator between
\* neighbours, an end token.
RECURSIVE MapLayoutClaimedTail(_)
MapLayoutClaimedTail(es) ==
    IF Len(es) = 0 THEN <<TRUE, FALSE, TRUE>>
    ELSE <<TRUE, TRUE, TRUE>> \o EntryBits(es[1]) \o MapLayoutClaimedTail(Tail(es))

MapLayoutClaimed(es) ==
    IF Len(es) = 0 THEN <<TRUE, FALSE, TRUE, TRUE, FALSE, TRUE>>
    ELSE <<TRUE, FALSE, TRUE>> \o EntryBits(es[1]) \o MapLayoutClaimedTail(Tail(es))

\* The layout without a start token: every entry followed by the MapValue token,
\* then the Map token.
RECURSIVE MapLayout(_)
MapLayout(es) ==
    IF Len(es) = 0 THEN <<TRUE, FALSE, TRUE>>
    ELSE EntryBits(es[1]) \o <<TRUE, TRUE, TRUE>> \o MapLayout(Tail(es))

\* C18 as stated: a map of n entries is written as a start token, the entries (key,
\* MapKey token, value) with a separator before every entry but the first, and an
\* end token: max(n - 1, 0) separators.
C18_MapLayoutWithStart ==
    (pc = "encoded" /\ ty = "MapStrU8") => data = MapLayoutClaimed(value)

\* C18 amended: a map of n entries is written with no start token as, for every
\* entry in iteration order, the key, the MapKey token, the value and the MapValue
\* token, and then the Map token: n MapValue tokens, one after every entry.
C18_MapLayoutNoStart ==
    (pc = "encoded" /\ ty = "MapStrU8") =>
        /\ data = MapLayout(value)
        /\ Len(data) = 30 * Len(value) + 3

\* A map of two entries, "b" before "a", was encoded.
C18_Witness ==
    /\ pc = "encoded" /\ ty = "MapStrU8"
    /\ Len(value) = 2 /\ value[1][1] = Str_b /\ value[2][1] = Str_a
    /\ data = MapLayout(value)

\* The struct types encoded.
StructTypes == {"One", "Human", "Prims", "Primitives"}

\* What the map encoder writes for the entries (field name as a String, field value)
\* of a struct, in declaration order: serialize_key and serialize_value per entry.
RECURSIVE StructAsMapEntries(_, _, _)
StructAsMapEntries(d, fields, vs) ==
    IF Len(fields) = 0 THEN SerOk(d)
    ELSE LET k == serialize_key(d, String, fields[1].name)
         IN  IF k.st # "ok" THEN k
             ELSE LET r == serialize_value(k.data, fields[1].sh, vs[1])
                  IN  IF r.st # "ok" THEN r
                      ELSE StructAsMapEntries(r.data, Tail(fields), Tail(vs))

\* The map encoder's output for a struct's fields: serialize_map, the entries, end.
StructAsMap(fields, vs) ==
    map_end(StructAsMapEntries(serialize_map(<< >>).data, fields, vs).data).data

\* C19: a struct is written bit for bit as the map encoder writes the map of its
\* field names (as Strings) and field values in declaration order.
C19_StructIsMap ==
    (pc = "encoded" /\ ty \in StructTypes) => data = StructAsMap(Shape(ty).fields, value)

\* A Human was encoded, and its 143 bits are those of the map of its two fields.
C19_Witness ==
    /\ pc = "encoded" /\ ty = "Human" /\ value[1] = Str_Ayush
    /\ Len(data) = 143
    /\ data = StructAsMap(Human.fields, value)

\* C20: the encoding of every enum value starts with an enum marker token, one of
\* the format's tokens, followed by the variant's ordinal as a little-endian u32;
\* and the decoder wants the marker before the index, so that an input that starts
\* with the index is refused.
C20_EnumMarker ==
    /\ (pc = "encoded" /\ ty \in EnumTypes) =>
            \E token \in Delimiter :
                LET marker == serialize_token(<< >>, token)
                IN  /\ Len(data) >= Len(marker) + 32
                    /\ SubSeq(data, 1, Len(marker)) = marker
                    /\ SubSeq(data, Len(marker) + 1, Len(marker) + 32)
                           = view_bits(to_le_bytes(value.idx, 4))
    /\ (pc = "decoded" /\ origin = "raw" /\ ty \in EnumTypes /\ Len(input) = 4) =>
            result.st = "err"

\* A method of the open deserializer has returned (a panic returns nothing).
Returned(op) == cpc \in {"open", "seq"} /\ last.op = op

\* bits without its first k bits.
Drop(bits, k) == SubSeq(bits, k + 1, Len(bits))

\* C11: deserialize_any and deserialize_ignored_any are answered with the
\* unsupported-call error at every cursor position of every buffer, and the cursor
\* stays where it was.
C11_SelfDescribingRejected ==
    (Returned("deserialize_any") \/ Returned("deserialize_ignored_any")) =>
        /\ last.st = "err"
        /\ last.err = "UnsupportedCall"
        /\ cur = last.before

\* deserialize_ignored_any was refused with eight bits left, a whole byte that was
\* there to skip.
C11_Witness ==
    /\ Returned("deserialize_ignored_any")
    /\ Len(cbuf) >= 16 /\ Len(last.before) = 8
    /\ last.err = "UnsupportedCall" /\ cur = last.before

\* The bits the decoder takes for a token and the value it compares them with.
TokenIsNext(bits, token) ==
    LET width == IF token \in {"String", "Byte", "Map"} THEN 8 ELSE 3
    IN  /\ Len(bits) >= width
        /\ bits_to_byte(SubSeq(bits, 1, width)) = DelimiterCode(token)

\* C15: eat_token(t) returns Ok and moves the cursor past the token only when the
\* bits at the cursor are t's pattern; otherwise it returns an error and the
\* cursor stays where it was.
C15_EatTokenChecksPattern ==
    Returned("eat_token") =>
        IF TokenIsNext(last.before, last.token)
        THEN last.st = "ok" /\ Len(cur) < Len(last.before)
        ELSE last.st = "err" /\ cur = last.before

\* The number of bits a successful eat consumes, by method; the decoder's tokens
\* are 8 bits wide for String, Byte and Map and 3 bits wide for the others.
EatWidth(call) ==
    CASE call.op = "eat_bit"   -> 1
      [] call.op = "eat_byte"  -> 8
      [] call.op = "eat_bytes" -> 8 * call.n
      [] call.op = "eat_token" -> IF call.token \in {"String", "Byte", "Map"} THEN 8 ELSE 3

\* C16: the remaining input is always a suffix of the caller's buffer; peek_byte and
\* peek_token leave it as it is; an eat that returns Ok shortens it by exactly its
\* width from the front, and an eat that returns an error leaves it as it is.
C16_CursorFrame ==
    /\ Len(cur) <= Len(cbuf)
    /\ cur = Drop(cbuf, Len(cbuf) - Len(cur))
    /\ (Returned("peek_byte") \/ Returned("peek_token")) => cur = last.before
    /\ \A op \in {"eat_bit", "eat_byte", "eat_bytes", "eat_token"} :
            Returned(op) =>
                IF last.st = "ok"
                THEN /\ Len(last.before) >= EatWidth(last)
                     /\ cur = Drop(last.before, EatWidth(last))
                ELSE cur = last.before

\* eat_byte returned Ok three bits into a buffer of two bytes, and five bits are left.
C16_Witness ==
    /\ Returned("eat_byte") /\ last.st = "ok"
    /\ Len(cbuf) = 16 /\ Len(last.before) = 13 /\ Len(cur) = 5

\* The three bits of a token are next in bits.
NextIs(bits, pattern) == Len(bits) >= 3 /\ SubSeq(bits, 1, 3) = pattern

\* What a call of next_element_seed (element type u8) that did not find the closing
\* token does: on a first call no separator is wanted, on a later call the SeqValue
\* token is wanted, ExpectedDelimiter(SeqValue) answered without it, and it is
\* consumed; then first is false and exactly one element, the next byte, is decoded.
PullsElement ==
    LET before == last.before
    IN  IF last.first
        THEN /\ first = FALSE
             /\ IF Len(before) >= 8
                THEN /\ last.st = "ok"
                     /\ last.val = <<bits_to_byte(SubSeq(before, 1, 8))>>
                     /\ cur = Drop(before, 8)
                ELSE last.st = "err" /\ cur = before
        ELSE IF ~NextIs(before, <<FALSE, FALSE, TRUE>>)
        THEN /\ last.st = "err" /\ last.err = "ExpectedDelimiter(SeqValue)"
             /\ cur = before /\ first = last.first
        ELSE /\ first = FALSE
             /\ IF Len(before) >= 11
                THEN /\ last.st = "ok"
                     /\ last.val = <<bits_to_byte(SubSeq(before, 4, 11))>>
                     /\ cur = Drop(before, 11)
                ELSE last.st = "err" /\ cur = Drop(before, 3)

\* The call found the closing Seq token: None, nothing consumed, first as it was.
PullsNone ==
    /\ last.st = "ok" /\ last.val = << >>
    /\ cur = last.before /\ first = last.first

\* C17: on every call of next_element_seed, with the closing Seq token next it returns
\* None and consumes nothing; otherwise, when it is not the first call, it wants the
\* SeqValue token, answers ExpectedDelimiter(SeqValue) without it and consumes it with
\* it; then first is false and exactly one element is decoded. On the first call no
\* separator is wanted or consumed.
C17_PullProtocolEveryCall ==
    Returned("next_element_seed") =>
        IF NextIs(last.before, <<TRUE, TRUE, FALSE>>) THEN PullsNone ELSE PullsElement

\* C17, amended: a call with fewer than the three bits of a token left is answered
\* with the error of the peek for the closing token, NLargerThanLength, with nothing
\* consumed and first as it was; every other call follows the pull protocol.
C17_PullProtocol ==
    Returned("next_element_seed") =>
        IF Len(last.before) < 3
        THEN /\ last.st = "err" /\ last.err = "NLargerThanLength"
             /\ cur = last.before /\ first = last.first
        ELSE IF NextIs(last.before, <<TRUE, TRUE, FALSE>>) THEN PullsNone
        ELSE PullsElement

\* A call that was not the first found the separator, consumed it and decoded the
\* byte after it.
C17_Witness ==
    /\ Returned("next_element_seed") /\ ~last.first
    /\ Len(last.before) >= 11 /\ SubSeq(last.before, 1, 3) = <<FALSE, FALSE, TRUE>>
    /\ last.st = "ok" /\ Len(last.val) = 1 /\ cur = Drop(last.before, 11)

\* C13: to_bytes is deterministic: whenever a to_bytes(v) call returns, in any thread,
\* after any other calls, its bytes are the bytes the first completed to_bytes(v)
\* call returned, because every call starts from an empty buffer.
C13_Deterministic ==
    \A t \in Threads :
        (th[t].pc = "returned" /\ th[t].op = "to_bytes") =>
            /\ th[t].ret.st = "ok"
            /\ first_output[th[t].arg] = <<th[t].ret.out>>

\* C13 happens: two calls with the same value have returned equal bytes, the later of
\* them in a thread whose previous call left its buffer behind, and a call with
\* another value has returned as well.
C13_Witness ==
    /\ th[1].pc = "returned" /\ th[1].op = "to_bytes" /\ th[1].arg = <<1>>
    /\ th[2].pc = "returned" /\ th[2].op = "to_bytes" /\ th[2].arg = <<1>>
    /\ th[1].ret.out = th[2].ret.out /\ th[1].ret.out = <<11, 24>>
    /\ Len(first_output[<<96, 1>>]) = 1

\* C14: concurrent calls do not interfere: under every interleaving of the threads'
\* steps, a call that returns gives the result the same call gives when it runs
\* alone from start to end.
C14_NoInterference ==
    \A t \in Threads :
        th[t].pc = "returned" =>
            IF th[t].op = "to_bytes"
            THEN LET alone == to_bytes(Vec(U8), th[t].arg)
                 IN  th[t].ret.st = alone.st /\ th[t].ret.out = alone.data
            ELSE LET alone == from_bytes(th[t].arg, Vec(U8))
                 IN  /\ th[t].ret.st = alone.st
                     /\ th[t].ret.err = alone.err
                     /\ th[t].ret.out = alone.val

\* C14 happens: a to_bytes call and a from_bytes call have both returned, each with
\* steps of the other thread in its midst.
C14_Witness ==
    /\ th[1].pc = "returned" /\ th[1].op = "to_bytes" /\ th[1].mixed
    /\ th[1].arg = <<96, 1>>
    /\ th[2].pc = "returned" /\ th[2].op = "from_bytes" /\ th[2].mixed
    /\ th[2].ret.st = "ok" /\ th[2].ret.out = <<1>>

\* A to_bytes call of the encoder which has ended for a value that is a tuple
\* variant of its enum.
EncodedTupleVariant(which) ==
    /\ enc = which
    /\ ety \in EnumTypes
    /\ Shape(ety).variants[evalue.idx + 1].kind = "tuple"

\* The bytes of a sequence of u8 as second/serializer.rs describes them: the opening
\* SEQ_DELIMITER, the elements with one SEQ_VALUE_DELIMITER between neighbours, the
\* closing SEQ_DELIMITER.
RECURSIVE MinSeqLayoutTail(_)
MinSeqLayoutTail(vs) ==
    IF Len(vs) = 0 THEN <<38>>
    ELSE <<46, vs[1]>> \o MinSeqLayoutTail(Tail(vs))

MinSeqLayout(vs) ==
    IF Len(vs) = 0 THEN <<38, 38>>
    ELSE <<38, vs[1]>> \o MinSeqLayoutTail(Tail(vs))

\* C21: what a tuple variant writes after its u32 variant index is the Sequence
\* encoding of its fields (opening token, no separator before the first field, one
\* between neighbours, closing token), for every variant index and field value, in
\* the bit-packed encoder and in the byte-aligned one.
C21_TupleVariantIsSeq ==
    /\ EncodedTupleVariant("protocol") =>
            (eout.st = "ok" /\ Drop(ebuf, 32) = SeqLayout(evalue.fields))
    /\ EncodedTupleVariant("second") =>
            (eout.st = "ok" /\ Drop(ebuf, 5) = MinSeqLayout(evalue.fields))

\* The types whose values are sequences, maps or structs.
CollectionTypes == {"VecU8", "MapStrU8", "One", "Human", "Prims", "Primitives"}

\* C29: in the u32-token encoder peek_last(n) yields the last n bytes whenever the
\* output holds at least n bytes, so to_bytes of a non-empty sequence, map or struct
\* at the top level, whose first element is written when the output is the 4-byte
\* opening token, returns Ok.
C29_PeekLastInclusive ==
    (enc = "word" /\ ety \in CollectionTypes /\ Len(evalue) >= 1) =>
        /\ eout.st = "ok"
        /\ \A n \in 1..Len(ebuf) :
              word_peek_last(ebuf, n) = SerOk(SubSeq(ebuf, Len(ebuf) - n + 1, Len(ebuf)))

\* C30: in the u32-token encoder no to_bytes call aborts: for every value, tuple
\* variants included, the caller gets an Ok or an Err.
C30_NeverAborts ==
    enc = "word" => eout.st \in {"ok", "err"}

\* C22 as stated: a bool is written as one byte, 0 or 1, and decoding a bool takes
\* one byte off the input.
C22_BoolOneByte ==
    /\ (pc = "encoded" /\ ty = "Bool") =>
            data = byte_to_bits(IF value THEN 1 ELSE 0)
    /\ (RoundTripped /\ ty = "Bool") =>
            (ReturnedOk(value) /\ result.rest = Drop(view_bits(input), 8))

\* C22, amended: a bool is written as one bit, 0 for false and 1 for true, and
\* decoding a bool takes one bit off the input and yields the bool written.
C22_BoolOneBit ==
    /\ (pc = "encoded" /\ ty = "Bool") => data = <<value>>
    /\ (RoundTripped /\ ty = "Bool") =>
            (ReturnedOk(value) /\ result.rest = Drop(view_bits(input), 1))

\* true was written as the one bit 1 and read back with the seven padding bits of its
\* byte left over.
C22_Witness ==
    /\ RoundTripped /\ ty = "Bool" /\ value = TRUE
    /\ data = <<TRUE>> /\ input = <<1>>
    /\ ReturnedOk(TRUE) /\ Len(result.rest) = 7

\* The deserializer is at the start of a buffer that holds the token as the encoder
\* wrote it.
AtWritten(bits, token) ==
    /\ cbuf = view_bits(into_vec(serialize_token(<< >>, token)))
    /\ bits = cbuf

\* C24: encoder and decoder agree on every token: on the bits serialize_token wrote
\* for a token, peek_token for that token answers true, and eat_token takes exactly
\* as many bits as serialize_token wrote.
C24_TokensAgree ==
    \A token \in Delimiter :
        /\ (Returned("peek_token") /\ last.token = token /\ AtWritten(last.before, token)) =>
                (last.st = "ok" /\ last.val = TRUE)
        /\ (Returned("eat_token") /\ last.token = token /\ AtWritten(last.before, token)) =>
                /\ last.st = "ok"
                /\ Len(last.before) - Len(cur) = Len(serialize_token(<< >>, token))

\* A String of the claim's domain: its UTF-8 bytes do not contain the byte of the
\* String delimiter.
NoDelimiterByte(s) == \A i \in 1..Len(s) : s[i] # DelimiterCode("String")

\* C25: every String without the delimiter byte, the empty one included, decodes from
\* its own encoding to itself, with exactly the bits that were written consumed: the
\* payload bytes and the one closing String token.
C25_StringRoundTrip ==
    (RoundTripped /\ ty = "String" /\ NoDelimiterByte(value)) =>
        /\ ReturnedOk(value)
        /\ Len(view_bits(bytes)) - Len(result.rest) = Len(data)
        /\ Len(data) = 8 * Len(value) + 8

\* C26: a Vec<Vec<u8>> decodes from its own encoding to itself, whatever its inner
\* sequences are.
C26_NestedSeqRoundTrip ==
    (RoundTripped /\ ty = "VecVecU8") => ReturnedOk(value)

\* C27: a buffer that agrees with the encoding of a value on the bits the encoder
\* wrote decodes to that value, whatever its padding bits and trailing bytes are.
C27_OnlyWrittenBits ==
    (pc = "decoded" /\ origin = "padded") =>
        /\ SubSeq(view_bits(input), 1, Len(data)) = data
        /\ ReturnedOk(value)

\* C28: from_bytes terminates on every finite input, the loops and the element and key
\* steps shortening what is left to read, so that every decode ends in a value or in
\* an error.
C28_EndsInValueOrError ==
    (pc = "decoded") => result.st \in {"ok", "err"}

RECURSIVE ElementError(_, _, _)
RECURSIVE EntryError(_, _, _)

\* No element-level error.
NoError == ""

\* The error of the first element of a sequence whose decoding returns an error, the
\* cursor being where an element or the closing token is due; NoError when the elements
\* decode up to the closing token, or the sequence itself is broken first (no closing
\* token, no separator).
ElementError(bits, is_first, sh) ==
    LET closing == de_peek_token(bits, "Seq")
        sep     == IF is_first THEN DeOk(<< >>, bits) ELSE expect_token(bits, "SeqValue")
        element == deserialize(sep.rest, sh)
    IN  IF closing.st # "ok" \/ closing.val THEN NoError
        ELSE IF sep.st # "ok" THEN NoError
        ELSE IF element.st = "err" THEN element.err
        ELSE IF element.st # "ok" THEN NoError
        ELSE ElementError(element.rest, FALSE, sh)

\* The same for the entries of a map (sh a map shape) or the fields of a struct (sh a
\* struct shape, the value decoded as the type of the field the key names): the error of
\* the first key or value whose decoding returns an error.
EntryError(bits, sh, seen) ==
    LET closing == de_peek_token(bits, "Map")
        key     == IF sh.k = "map" THEN deserialize(bits, sh.key) ELSE parse_str(bits)
        keytok  == expect_token(key.rest, "MapKey")
        field   == IF sh.k = "map" THEN 1 ELSE field_of(sh.fields, key.val)
        val     == deserialize(keytok.rest,
                               IF sh.k = "map" THEN sh.val ELSE sh.fields[field].sh)
        valtok  == expect_token(val.rest, "MapValue")
    IN  IF closing.st # "ok" \/ closing.val THEN NoError
        ELSE IF key.st = "err" THEN key.err
        ELSE IF key.st # "ok" \/ keytok.st # "ok" THEN NoError
        ELSE IF sh.k = "struct" /\ (field = 0 \/ field \in seen) THEN NoError
        ELSE IF val.st = "err" THEN val.err
        ELSE IF val.st # "ok" \/ valtok.st # "ok" THEN NoError
        ELSE EntryError(valtok.rest, sh, IF sh.k = "struct" THEN seen \cup {field} ELSE seen)

\* The error of the payload of the variant the input names, NoError when the index is
\* no variant's or the payload decodes.
PayloadError(bits, sh) ==
    LET key     == variant_seed(bits, sh)
        payload == variant_payload(key.rest, sh.variants[key.val + 1])
    IN  IF key.st # "ok" THEN NoError
        ELSE IF payload.st = "err" THEN payload.err
        ELSE NoError

\* The first element-level error of the decode of input as the target type.
FirstError ==
    LET bits == view_bits(input)
        sh   == Shape(ty)
        open == expect_token(bits, "Seq")
    IN  IF sh.k = "seq" THEN (IF open.st = "ok" THEN ElementError(open.rest, TRUE, sh.of)
                              ELSE NoError)
        ELSE IF sh.k \in {"map", "struct"} THEN EntryError(bits, sh, {})
        ELSE IF sh.k = "enum" THEN PayloadError(bits, sh)
        ELSE NoError

\* C23: a decode of a sequence, map, struct or enum in which an element, a key, a value
\* or the variant's payload fails with an error returns that error, unchanged, and no
\* value.
C23_FirstErrorUnchanged ==
    (pc = "decoded" /\ FirstError # NoError) => result = DeErr(FirstError)

\* A Vec<u8> cut inside its first element: the element's error is the decode's.
C23_Witness ==
    /\ pc = "decoded" /\ origin = "truncated" /\ ty = "VecU8" /\ Len(value) = 2
    /\ Len(input) = 1
    /\ FirstError = "NLargerThanLength"
    /\ result = DeErr("NLargerThanLength")

====
